---- MODULE Spec2Model ----
(***************************************************************************)
(* Review-gated secret changes (cdk-gitify-secrets): the propose / approve *)
(* / reject / rollback / cleanup Lambda handlers over the three stores     *)
(* they share: the live secrets and the staging secrets (Secrets Manager)  *)
(* and the change ledger (DynamoDB).                                       *)
(*                                                                         *)
(* Every handler invocation is a process; each of its awaited store calls  *)
(* is one atomic step, so invocations interleave between store calls the   *)
(* way concurrent Lambda invocations do. What a handler does before its    *)
(* first store call touches no store and belongs to that call's step.      *)
(***************************************************************************)
EXTENDS Integers, Sequences, FiniteSets, TLC

\* ------------------------------------------------------------------ bounds

NumProcs == 2           \* concurrent handler invocations
MaxTime == 1            \* the clock runs 0..MaxTime
MaxVersion == 4         \* versions one live secret may reach
MaxChanges == 2         \* change identifiers (uuidv4) the CLI may mint
MaxRollbacks == 2       \* rollback identifiers (uuidv4) that may be minted
MaxRecords == 3         \* items the ledger may hold
MaxInvocations == 4     \* handler invocations that make a store call
MaxLimit == 3           \* the largest small `limit` a history request asks for

Procs == 1..NumProcs

\* --------------------------------------------------------------- constants

Users == {"alice", "bob"}

\* PROJECTS_CONFIG: the configured (project, env) pairs, and one that is not.
ConfiguredTargets == {"app/prod"}
AllTargets == ConfiguredTargets \cup {"app/qa"}

\* PREVENT_SELF_APPROVAL (default: anything but 'false').
PREVENT_SELF_APPROVAL == TRUE

MAX_AGE_DAYS == 7

\* The identifiers uuidv4 returns to the proposers' CLI, in the order it
\* returns them.
ChangeIdSeq == <<"c1", "c2", "c3">>
ChangeIds == {ChangeIdSeq[i] : i \in 1..MaxChanges}
\* The identifiers uuidv4 returns to rollback, in the order it returns them.
RollbackIdSeq == <<"r1", "r2", "r3">>
RollbackIds == {RollbackIdSeq[i] : i \in 1..MaxRollbacks}
RequestIds == ChangeIds \cup RollbackIds

\* Key order stands for the insertion order Object.keys walks.
KeyOrder == <<"k1", "k2", "toString">>
Keys == {"k1", "k2", "toString"}
\* The names every object inherits from Object.prototype (constructor,
\* toString, valueOf, hasOwnProperty, ...), among the keys.
ObjectPrototypeKeys == {"toString"}
Values == {"a", "b"}

EmptyMap == <<>>
MapA == "k1" :> "a"
MapB == ("k1" :> "b") @@ ("k2" :> "a")
\* What a proposer may stage: a (project, env) and the proposed values.
StagedPayloads == {<<"app/prod", MapA>>, <<"app/prod", MapB>>,
                   <<"app/qa", MapA>>}

\* Every key -> value mapping over Keys and Values.
Maps ==
    UNION {[ks -> Values] : ks \in (SUBSET Keys) \ {{}}} \cup {EmptyMap}

Comments == {"lgtm"}

\* Optional values: undefined is None, a defined v is Some(v).
None == <<>>
Some(v) == <<v>>

\* An absent VersionId / secretVersionId (falsy in the handlers' checks).
NoVersion == 0
\* An absent reviewedAt.
NoTime == -1

VARIABLES
    live,       \* [ConfiguredTargets -> Seq(map)]: the versions of each live
                \* secret, oldest first; the last is AWSCURRENT, the one
                \* before it AWSPREVIOUS, and the VersionId is the length
    previousStage, \* [ConfiguredTargets -> BOOLEAN]: a version of the live
                \* secret carries the AWSPREVIOUS label
    staging,    \* [ChangeIds -> None | Some(payload)]: the staging secrets
    ledger,     \* the set of ChangeRequest items, keyed by (pk, sk)
    clock,      \* what new Date() returns
    staged,     \* how many change identifiers uuidv4 has returned to the CLI
    minted,     \* how many rollback identifiers uuidv4 has returned
    started,    \* how many invocations have made a store call
    pc,         \* [Procs -> the store call the invocation is about to make]
    req,        \* [Procs -> the invocation's request]
    local,      \* [Procs -> the handler's local variables]
    resp        \* the response the step just taken returned, if it returned one

vars == <<live, previousStage, staging, ledger, clock, staged, minted, started,
          pc, req, local, resp>>
stores == <<live, staging, ledger>>

\* ----------------------------------------------------------- shared/secrets

\* getRealSecretName / getCurrentSecretValue: AWSCURRENT and its VersionId.
CurrentValues(t) == live[t][Len(live[t])]
CurrentVersionId(t) == Len(live[t])
getCurrentSecretValue(t) ==
    [values |-> CurrentValues(t), versionId |-> CurrentVersionId(t)]

\* getSecretByVersionStage(project, env, 'AWSPREVIOUS'): undefined when the
\* secret has no version labelled AWSPREVIOUS.
getSecretByVersionStage(t) ==
    IF previousStage[t] THEN Some(live[t][Len(live[t]) - 1]) ELSE None

\* putSecretValue: a new version becomes AWSCURRENT, and the version that was
\* AWSCURRENT becomes AWSPREVIOUS.
putSecretValue(t, values) == [live EXCEPT ![t] = Append(@, values)]
movePreviousStage(t) == [previousStage EXCEPT ![t] = TRUE]

\* The staging secret's name: the staging prefix, then the changeId.
STAGING_PREFIX == "secret-review/pending/"
getStagingSecretName(c) == STAGING_PREFIX \o c

\* getStagingSecretValue: undefined on ResourceNotFoundException.
getStagingSecretValue(c) == IF c \in ChangeIds THEN staging[c] ELSE None

\* deleteStagingSecret: ResourceNotFoundException is swallowed.
deleteStagingSecret(c) ==
    IF c \in ChangeIds THEN [staging EXCEPT ![c] = None] ELSE staging

\* listStagingSecrets: the staging secrets that carry the secretReviewStaging
\* tag (ListSecrets filtered on the tag key), with their tags.
listStagingSecrets ==
    {[changeId |-> c, createdAt |-> staging[c][1].createdAt] :
        c \in {x \in ChangeIds : staging[x] # None /\ staging[x][1].tagged}}

\* ------------------------------------------------------------ shared/dynamo

buildSk(createdAt, changeId) == <<createdAt, changeId>>

\* putChange: PutCommand replaces the item with the same (pk, sk).
putChange(item) ==
    {r \in ledger : ~(r.pk = item.pk /\ r.sk = item.sk)} \cup {item}

\* getChangeById: a Query on changeId-index with Limit 1. The index has no
\* sort key, so any one of the items with that changeId may come back.
ChangesById(c) == {r \in ledger : r.changeId = c}

\* updateChangeStatus, had it replaced the item (a PutCommand of the key and
\* the review fields) and so dropped the diff propose stored.
updateChangeStatusReplacing(pk, sk, status, reviewedBy, comment, prevVer, curKeys) ==
    {IF r.pk = pk /\ r.sk = sk
        THEN [r EXCEPT !.status = status,
                       !.reviewedBy = reviewedBy,
                       !.reviewedAt = clock,
                       !.comment = comment,
                       !.previousVersionId = prevVer,
                       !.currentKeys = curKeys,
                       !.diff = <<>>,
                       !.diffCount = 0]
        ELSE r : r \in ledger}

\* updateChangeStatus: an UpdateCommand with no ConditionExpression. It sets
\* status, reviewedBy, reviewedAt, and comment / previousVersionId /
\* currentKeys when truthy. (UpdateItem creates the item when the key is
\* absent; ledger items are never deleted, so the key is always present.)
updateChangeStatus(pk, sk, status, reviewedBy, comment, prevVer, curKeys) ==
    {IF r.pk = pk /\ r.sk = sk
        THEN [r EXCEPT !.status = status,
                       !.reviewedBy = reviewedBy,
                       !.reviewedAt = clock,
                       !.comment = IF comment # "" THEN comment ELSE @,
                       !.previousVersionId =
                            IF prevVer # NoVersion THEN prevVer ELSE @,
                       !.currentKeys = IF curKeys # None THEN curKeys ELSE @]
        ELSE r : r \in ledger}

\* ------------------------------------------------------------------ propose

\* Object.keys(m) in insertion order.
ObjectKeys(m) == SelectSeq(KeyOrder, LAMBDA k : k \in DOMAIN m)

\* `key in obj`: an own key of the parsed JSON object, or a name the object
\* inherits from Object.prototype.
HasProperty(key, obj) == key \in DOMAIN obj \/ key \in ObjectPrototypeKeys

\* computeDiff, had its entries carried the proposed values.
computeDiffWithValues(currentValues, proposedValues) ==
    LET changed == SelectSeq(ObjectKeys(proposedValues),
                     LAMBDA k : \/ ~HasProperty(k, currentValues)
                                \/ k \notin DOMAIN currentValues
                                \/ currentValues[k] # proposedValues[k])
        gone == SelectSeq(ObjectKeys(currentValues),
                     LAMBDA k : ~HasProperty(k, proposedValues))
    IN  [i \in 1..Len(changed) |->
            [type |-> IF ~HasProperty(changed[i], currentValues)
                        THEN "added" ELSE "modified",
             key |-> proposedValues[changed[i]]]]
        \o [i \in 1..Len(gone) |-> [type |-> "removed", key |-> gone[i]]]

\* computeDiff: added / modified over the proposed keys, then removed over
\* the current keys. For a proposed key the current values only inherit,
\* currentValues[key] is a function, which is !== any string.
computeDiff(currentValues, proposedValues) ==
    LET changed == SelectSeq(ObjectKeys(proposedValues),
                     LAMBDA k : \/ ~HasProperty(k, currentValues)
                                \/ k \notin DOMAIN currentValues
                                \/ currentValues[k] # proposedValues[k])
        gone == SelectSeq(ObjectKeys(currentValues),
                     LAMBDA k : ~HasProperty(k, proposedValues))
    IN  [i \in 1..Len(changed) |->
            [type |-> IF ~HasProperty(changed[i], currentValues)
                        THEN "added" ELSE "modified",
             key |-> changed[i]]]
        \o [i \in 1..Len(gone) |-> [type |-> "removed", key |-> gone[i]]]

\* ----------------------------------------------------------------- requests

NoReq == [op |-> "none", changeId |-> "", user |-> "", target |-> "",
          comment |-> ""]

NoLocal == [change |-> None, stagingData |-> None,
            previousVersionId |-> NoVersion, rollbackValues |-> None,
            stagingSecrets |-> {}, secret |-> None, now |-> 0]

NoResp == [statusCode |-> 0, message |-> ""]

ok(message) == [statusCode |-> 200, message |-> message]

\* propose's 200 body: changeId, diff, diffCount and the message.
okProposed(changeId, diff) ==
    [statusCode |-> 200, message |-> "Change proposed successfully",
     changeId |-> changeId, diff |-> diff, diffCount |-> Len(diff)]

error(statusCode, message) == [statusCode |-> statusCode, message |-> message]

Idle(p) == pc[p] = "idle"

\* The invocation returns its response; its locals are gone.
Return(p, response) ==
    /\ pc' = [pc EXCEPT ![p] = "idle"]
    /\ req' = [req EXCEPT ![p] = NoReq]
    /\ local' = [local EXCEPT ![p] = NoLocal]
    /\ resp' = response

\* The invocation goes on to its next store call.
Goto(p, label, locals) ==
    /\ pc' = [pc EXCEPT ![p] = label]
    /\ local' = [local EXCEPT ![p] = locals]
    /\ resp' = NoResp
    /\ UNCHANGED req

\* A request arrives and its handler makes its first store call. Invocations
\* are numbered in the order they take their places: place p is taken only
\* while every place before it is.
Begin(p) ==
    /\ Idle(p)
    /\ \A q \in 1..(p - 1) : ~Idle(q)
    /\ started < MaxInvocations
    /\ started' = started + 1

\* The invocation goes on from its first store call to its next.
Enter(p, label, request, locals) ==
    /\ pc' = [pc EXCEPT ![p] = label]
    /\ req' = [req EXCEPT ![p] = request]
    /\ local' = [local EXCEPT ![p] = locals]
    /\ resp' = NoResp

\* -------------------------------------------------------------- environment

\* new Date() moves on.
Tick ==
    /\ clock < MaxTime
    /\ clock' = clock + 1
    /\ resp' = NoResp
    /\ UNCHANGED <<live, previousStage, staging, ledger, staged, minted, started, pc, req, local>>

\* The retention window passes: new Date() moves on by MAX_AGE_DAYS.
WeekPasses ==
    /\ clock <= MaxTime
    /\ clock' = clock + MAX_AGE_DAYS
    /\ resp' = NoResp
    /\ UNCHANGED <<live, previousStage, staging, ledger, staged, minted, started, pc, req, local>>

\* The staging payload sr propose builds, and the secret's tags: createdAt
\* and the secretReviewStaging marker, once TagResource has set them.
StagingSecret(t, proposed, tagged, createdAt) ==
    [proposed |-> proposed,
     previous |-> IF t \in ConfiguredTargets THEN CurrentValues(t)
                  ELSE EmptyMap,
     target |-> t, tagged |-> tagged, createdAt |-> createdAt]

\* sr propose (CLI): the proposer reads the live secret's values (none when
\* the secret does not exist), creates the staging secret with the proposed
\* values and the values read, and tags it; CreateSecret fails when the name
\* exists.
StageCreate(t, proposed) ==
    /\ staged < MaxChanges
    /\ staged' = staged + 1
    /\ staging' = [staging EXCEPT ![ChangeIdSeq[staged + 1]] =
            Some(StagingSecret(t, proposed, TRUE, clock))]
    /\ resp' = NoResp
    /\ UNCHANGED <<live, previousStage, ledger, clock, minted, started, pc, req, local>>

\* sr propose (CLI), its two store calls apart: CreateSecret creates the
\* staging secret with no tags.
StageCreateSecret(t, proposed) ==
    /\ staged < MaxChanges
    /\ staged' = staged + 1
    /\ staging' = [staging EXCEPT ![ChangeIdSeq[staged + 1]] =
            Some(StagingSecret(t, proposed, FALSE, NoTime))]
    /\ resp' = NoResp
    /\ UNCHANGED <<live, previousStage, ledger, clock, minted, started, pc, req, local>>

\* TagResource then sets createdAt (new Date()), changeId and
\* secretReviewStaging. The step is never taken when the CLI process ends,
\* or the call fails, after CreateSecret.
StageTagResource(c) ==
    /\ staging[c] # None
    /\ ~staging[c][1].tagged
    /\ staging' = [staging EXCEPT ![c] =
            Some([@[1] EXCEPT !.tagged = TRUE, !.createdAt = clock])]
    /\ resp' = NoResp
    /\ UNCHANGED <<live, previousStage, ledger, clock, staged, minted, started, pc, req, local>>

\* CreateSecret under a staging name used before (the name is the prefix and
\* the changeId): the call succeeds once the earlier secret is gone, deleted
\* with ForceDeleteWithoutRecovery, and the new secret holds whatever
\* payload its creator gives it.
StageRecreate(c, t, proposed) ==
    /\ \E i \in 1..staged : c = ChangeIdSeq[i]
    /\ staging[c] = None
    /\ staging' = [staging EXCEPT ![c] =
            Some(StagingSecret(t, proposed, TRUE, clock))]
    /\ resp' = NoResp
    /\ UNCHANGED <<live, previousStage, ledger, clock, staged, minted, started, pc, req, local>>

\* An operator, outside the handlers, detaches the AWSPREVIOUS label from a
\* live secret (UpdateSecretVersionStage): GetSecretValue with VersionStage
\* AWSPREVIOUS then fails with ResourceNotFoundException.
RemovePreviousStage(t) ==
    /\ previousStage[t]
    /\ previousStage' = [previousStage EXCEPT ![t] = FALSE]
    /\ resp' = NoResp
    /\ UNCHANGED <<live, staging, ledger, clock, staged, minted, started, pc,
                   req, local>>

\* ------------------------------------------------------------------ propose

\* The request is checked before the first store call: required fields, the
\* configured (project, env) pairs, the staging name's prefix.
ProposeBadRequest(p, t, prefixed, reason) ==
    /\ Idle(p)
    /\ reason = "" \/ t \notin ConfiguredTargets \/ ~prefixed
    /\ Return(p, IF reason = "" THEN error(400, "Missing required fields")
                 ELSE IF t \notin ConfiguredTargets
                    THEN error(400, "Invalid project/environment")
                 ELSE error(400, "Invalid staging secret name"))
    /\ UNCHANGED <<live, previousStage, staging, ledger, clock, staged, minted, started>>

\* ProposeReadStaging, had propose not compared the payload's (project, env)
\* with the request's.
ProposeReadStagingAnyTarget(p, user, t, c) ==
    /\ t \in ConfiguredTargets
    /\ Begin(p)
    /\ LET stagingData == getStagingSecretValue(c)
       IN  IF stagingData = None
             THEN Return(p, error(400, "Staging secret not found"))
           ELSE Enter(p, "p_current",
                      [NoReq EXCEPT !.op = "propose", !.user = user,
                                    !.target = t, !.changeId = c],
                      [NoLocal EXCEPT !.stagingData = stagingData])
    /\ UNCHANGED <<live, previousStage, staging, ledger, clock, staged, minted>>

\* getStagingSecretValue(changeId), then the payload's (project, env).
ProposeReadStaging(p, user, t, c) ==
    /\ t \in ConfiguredTargets
    /\ Begin(p)
    /\ LET stagingData == getStagingSecretValue(c)
       IN  IF stagingData = None
             THEN Return(p, error(400, "Staging secret not found"))
           ELSE IF stagingData[1].target # t
             THEN Return(p, error(400, "Staging secret project/env does not match request"))
           ELSE Enter(p, "p_current",
                      [NoReq EXCEPT !.op = "propose", !.user = user,
                                    !.target = t, !.changeId = c],
                      [NoLocal EXCEPT !.stagingData = stagingData])
    /\ UNCHANGED <<live, previousStage, staging, ledger, clock, staged, minted>>

\* The ChangeRequest item propose builds.
NewChange(t, c, user, diff, diffCount, createdAt, secretVersionId) ==
    [pk |-> t, sk |-> buildSk(createdAt, c), changeId |-> c, target |-> t,
     status |-> "pending", proposedBy |-> user,
     stagingSecretName |-> getStagingSecretName(c),
     diff |-> diff, diffCount |-> diffCount, reason |-> "fix",
     createdAt |-> createdAt, secretVersionId |-> secretVersionId,
     reviewedBy |-> "", reviewedAt |-> NoTime, comment |-> "",
     previousVersionId |-> NoVersion, currentKeys |-> None]

\* ProposeReadCurrent, had propose recorded a change whatever the diff.
ProposeReadCurrentAnyDiff(p) ==
    /\ pc[p] = "p_current"
    /\ LET cur == getCurrentSecretValue(req[p].target)
           diff == computeDiff(cur.values, local[p].stagingData[1].proposed)
       IN  Goto(p, "p_put",
                [local[p] EXCEPT !.change =
                    Some(NewChange(req[p].target, req[p].changeId,
                                   req[p].user, diff, Len(diff), clock,
                                   cur.versionId))])
    /\ UNCHANGED <<live, previousStage, staging, ledger, clock, staged, minted, started>>

\* ProposeReadCurrent, had propose taken the staging payload's `previous`
\* values for the baseline of the diff.
ProposeReadCurrentFromPayload(p) ==
    /\ pc[p] = "p_current"
    /\ LET cur == getCurrentSecretValue(req[p].target)
           diff == computeDiff(local[p].stagingData[1].previous,
                               local[p].stagingData[1].proposed)
       IN  IF Len(diff) = 0
             THEN Return(p, ok("No changes detected"))
             ELSE Goto(p, "p_put",
                    [local[p] EXCEPT !.change =
                        Some(NewChange(req[p].target, req[p].changeId,
                                       req[p].user, diff, Len(diff), clock,
                                       cur.versionId))])
    /\ UNCHANGED <<live, previousStage, staging, ledger, clock, staged, minted, started>>

\* getCurrentSecretValue, computeDiff, and the item timestamped by new Date().
ProposeReadCurrent(p) ==
    /\ pc[p] = "p_current"
    /\ LET cur == getCurrentSecretValue(req[p].target)
           diff == computeDiff(cur.values, local[p].stagingData[1].proposed)
       IN  IF Len(diff) = 0
             THEN Return(p, ok("No changes detected"))
             ELSE Goto(p, "p_put",
                    [local[p] EXCEPT !.change =
                        Some(NewChange(req[p].target, req[p].changeId,
                                       req[p].user, diff, Len(diff), clock,
                                       cur.versionId))])
    /\ UNCHANGED <<live, previousStage, staging, ledger, clock, staged, minted, started>>

\* ProposePut, had propose applied the proposed values itself.
ProposePutWritesLive(p) ==
    /\ pc[p] = "p_put"
    /\ Cardinality(putChange(local[p].change[1])) <= MaxRecords
    /\ ledger' = putChange(local[p].change[1])
    /\ live' = putSecretValue(req[p].target,
                              local[p].stagingData[1].proposed)
    /\ previousStage' = movePreviousStage(req[p].target)
    /\ Return(p, okProposed(req[p].changeId, local[p].change[1].diff))
    /\ UNCHANGED <<staging, clock, staged, minted, started>>

\* putChange(change) and the 200 response.
ProposePut(p) ==
    /\ pc[p] = "p_put"
    /\ Cardinality(putChange(local[p].change[1])) <= MaxRecords
    /\ ledger' = putChange(local[p].change[1])
    /\ Return(p, okProposed(req[p].changeId, local[p].change[1].diff))
    /\ UNCHANGED <<live, previousStage, staging, clock, staged, minted, started>>

\* ------------------------------------------------------------------ approve

ReviewRequest(op, user, c, comment) ==
    [NoReq EXCEPT !.op = op, !.user = user, !.changeId = c,
                  !.comment = comment]

\* getChangeById, then the checks made on the loaded item before the next
\* store call: found, pending, not the proposer's own. The version check is
\* skipped for an item with no secretVersionId.
ApproveLoad(p, user, c, comment) ==
    /\ Begin(p)
    /\ \/ /\ ChangesById(c) = {}
          /\ Return(p, error(404, "Change not found"))
       \/ \E change \in ChangesById(c) :
            IF change.status # "pending"
              THEN Return(p, error(409, "Change is already resolved"))
            ELSE IF PREVENT_SELF_APPROVAL /\ change.proposedBy = user
              THEN Return(p, error(403, "Cannot approve your own changes"))
            ELSE Enter(p, IF change.secretVersionId # NoVersion
                            THEN "a_version" ELSE "a_staging",
                       ReviewRequest("approve", user, c, comment),
                       [NoLocal EXCEPT !.change = Some(change)])
    /\ UNCHANGED <<live, previousStage, staging, ledger, clock, staged, minted>>

\* ApproveVersionCheck, had the comparison been left out.
ApproveVersionUnchecked(p) ==
    /\ pc[p] = "a_version"
    /\ Goto(p, "a_staging", local[p])
    /\ UNCHANGED <<live, previousStage, staging, ledger, clock, staged, minted, started>>

\* Optimistic concurrency: getCurrentSecretValue and the comparison of its
\* versionId with the one recorded at proposal time.
ApproveVersionCheck(p) ==
    /\ pc[p] = "a_version"
    /\ LET change == local[p].change[1]
           currentVersionId == getCurrentSecretValue(change.target).versionId
       IN  IF /\ currentVersionId # NoVersion
              /\ currentVersionId # change.secretVersionId
             THEN Return(p, error(409, "Conflict"))
             ELSE Goto(p, "a_staging", local[p])
    /\ UNCHANGED <<live, previousStage, staging, ledger, clock, staged, minted, started>>

\* ApproveReadStaging, had approve, on finding no staging secret, gone on
\* with the live secret's current values for the proposed ones.
ApproveReadStagingOrCurrent(p) ==
    /\ pc[p] = "a_staging"
    /\ LET stagingData == getStagingSecretValue(req[p].changeId)
           t == local[p].change[1].target
       IN  Goto(p, "a_previous",
                [local[p] EXCEPT !.stagingData =
                    IF stagingData = None
                      THEN Some(StagingSecret(t, CurrentValues(t), TRUE, clock))
                      ELSE stagingData])
    /\ UNCHANGED <<live, previousStage, staging, ledger, clock, staged, minted, started>>

\* getStagingSecretValue(changeId).
ApproveReadStaging(p) ==
    /\ pc[p] = "a_staging"
    /\ LET stagingData == getStagingSecretValue(req[p].changeId)
       IN  IF stagingData = None
             THEN Return(p, error(500, "Staging secret not found"))
             ELSE Goto(p, "a_previous",
                       [local[p] EXCEPT !.stagingData = stagingData])
    /\ UNCHANGED <<live, previousStage, staging, ledger, clock, staged, minted, started>>

\* ApproveReadPrevious, had approve deleted the staging secret before the
\* write to the live secret.
ApproveReadPreviousDeletes(p) ==
    /\ pc[p] = "a_previous"
    /\ staging' = deleteStagingSecret(req[p].changeId)
    /\ Goto(p, "a_put",
            [local[p] EXCEPT !.previousVersionId =
                getCurrentSecretValue(local[p].change[1].target).versionId])
    /\ UNCHANGED <<live, previousStage, ledger, clock, staged, minted, started>>

\* getCurrentSecretValue again: the versionId before the write.
ApproveReadPrevious(p) ==
    /\ pc[p] = "a_previous"
    /\ Goto(p, "a_put",
            [local[p] EXCEPT !.previousVersionId =
                getCurrentSecretValue(local[p].change[1].target).versionId])
    /\ UNCHANGED <<live, previousStage, staging, ledger, clock, staged, minted, started>>

\* ApprovePut, had it written only over the version recorded at proposal
\* time and gone on without writing otherwise.
ApprovePutIfCurrent(p) ==
    /\ pc[p] = "a_put"
    /\ Len(live[local[p].change[1].target]) < MaxVersion
    /\ live' = IF CurrentVersionId(local[p].change[1].target)
                        = local[p].change[1].secretVersionId
                 THEN putSecretValue(local[p].change[1].target,
                                     local[p].stagingData[1].proposed)
                 ELSE live
    /\ previousStage' = IF live' # live
                          THEN movePreviousStage(local[p].change[1].target)
                          ELSE previousStage
    /\ Goto(p, "a_delete", local[p])
    /\ UNCHANGED <<staging, ledger, clock, staged, minted, started>>

\* putSecretValue(project, env, stagingData.proposed).
ApprovePut(p) ==
    /\ pc[p] = "a_put"
    /\ Len(live[local[p].change[1].target]) < MaxVersion
    /\ live' = putSecretValue(local[p].change[1].target,
                              local[p].stagingData[1].proposed)
    /\ previousStage' = movePreviousStage(local[p].change[1].target)
    /\ Goto(p, "a_delete", local[p])
    /\ UNCHANGED <<staging, ledger, clock, staged, minted, started>>

\* ApproveDeleteStaging, had the staging secret been left in place.
ApproveKeepStaging(p) ==
    /\ pc[p] = "a_delete"
    /\ Goto(p, "a_update", local[p])
    /\ UNCHANGED <<live, previousStage, staging, ledger, clock, staged, minted, started>>

\* deleteStagingSecret(changeId).
ApproveDeleteStaging(p) ==
    /\ pc[p] = "a_delete"
    /\ staging' = deleteStagingSecret(req[p].changeId)
    /\ Goto(p, "a_update", local[p])
    /\ UNCHANGED <<live, previousStage, ledger, clock, staged, minted, started>>

\* updateChangeStatus(pk, sk, 'approved', ...) and the 200 response.
ApproveUpdate(p) ==
    /\ pc[p] = "a_update"
    /\ ledger' = updateChangeStatus(local[p].change[1].pk,
                    local[p].change[1].sk, "approved", req[p].user,
                    req[p].comment, local[p].previousVersionId,
                    Some(ObjectKeys(local[p].stagingData[1].proposed)))
    /\ Return(p, ok("approved and applied"))
    /\ UNCHANGED <<live, previousStage, staging, clock, staged, minted, started>>

\* ------------------------------------------------------------------- reject

\* RejectLoad, had the status check been left out.
RejectLoadAnyStatus(p, user, c, comment) ==
    /\ Begin(p)
    /\ \/ /\ ChangesById(c) = {}
          /\ Return(p, error(404, "Change not found"))
       \/ \E change \in ChangesById(c) :
            Enter(p, "j_delete", ReviewRequest("reject", user, c, comment),
                  [NoLocal EXCEPT !.change = Some(change)])
    /\ UNCHANGED <<live, previousStage, staging, ledger, clock, staged, minted>>

\* RejectLoad, had reject refused the proposer the way approve does.
RejectLoadNotOwn(p, user, c, comment) ==
    /\ Begin(p)
    /\ \/ /\ ChangesById(c) = {}
          /\ Return(p, error(404, "Change not found"))
       \/ \E change \in ChangesById(c) :
            IF change.status # "pending"
              THEN Return(p, error(409, "Change is already resolved"))
            ELSE IF PREVENT_SELF_APPROVAL /\ change.proposedBy = user
              THEN Return(p, error(403, "Cannot approve your own changes"))
            ELSE Enter(p, "j_delete",
                       ReviewRequest("reject", user, c, comment),
                       [NoLocal EXCEPT !.change = Some(change)])
    /\ UNCHANGED <<live, previousStage, staging, ledger, clock, staged, minted>>

\* getChangeById, then found and pending.
RejectLoad(p, user, c, comment) ==
    /\ Begin(p)
    /\ \/ /\ ChangesById(c) = {}
          /\ Return(p, error(404, "Change not found"))
       \/ \E change \in ChangesById(c) :
            IF change.status # "pending"
              THEN Return(p, error(409, "Change is already resolved"))
              ELSE Enter(p, "j_delete",
                         ReviewRequest("reject", user, c, comment),
                         [NoLocal EXCEPT !.change = Some(change)])
    /\ UNCHANGED <<live, previousStage, staging, ledger, clock, staged, minted>>

\* RejectDeleteStaging, had a delete of an absent staging secret raised.
RejectDeleteStagingStrict(p) ==
    /\ pc[p] = "j_delete"
    /\ IF getStagingSecretValue(req[p].changeId) = None
         THEN /\ Return(p, error(500, "Internal server error"))
              /\ UNCHANGED staging
         ELSE /\ staging' = deleteStagingSecret(req[p].changeId)
              /\ Goto(p, "j_update", local[p])
    /\ UNCHANGED <<live, previousStage, ledger, clock, staged, minted, started>>

\* deleteStagingSecret(changeId).
RejectDeleteStaging(p) ==
    /\ pc[p] = "j_delete"
    /\ staging' = deleteStagingSecret(req[p].changeId)
    /\ Goto(p, "j_update", local[p])
    /\ UNCHANGED <<live, previousStage, ledger, clock, staged, minted, started>>

\* updateChangeStatus(pk, sk, 'rejected', ...) and the 200 response.
RejectUpdate(p) ==
    /\ pc[p] = "j_update"
    /\ ledger' = updateChangeStatus(local[p].change[1].pk,
                    local[p].change[1].sk, "rejected", req[p].user,
                    req[p].comment, NoVersion, None)
    /\ Return(p, ok("rejected"))
    /\ UNCHANGED <<live, previousStage, staging, clock, staged, minted, started>>

\* ----------------------------------------------------------------- rollback

RollbackBadRequest(p) ==
    /\ Idle(p)
    /\ Return(p, error(400, "Missing required fields"))
    /\ UNCHANGED <<live, previousStage, staging, ledger, clock, staged, minted, started>>

RollbackLoadAnyStatus(p, user, c) ==
    /\ Begin(p)
    /\ \/ /\ ChangesById(c) = {}
          /\ Return(p, error(404, "Change not found"))
       \/ \E targetChange \in ChangesById(c) :
            Enter(p, "r_previous",
                  [NoReq EXCEPT !.op = "rollback", !.user = user,
                                !.changeId = c],
                  [NoLocal EXCEPT !.change = Some(targetChange)])
    /\ UNCHANGED <<live, previousStage, staging, ledger, clock, staged, minted>>

\* getChangeById, then found and approved.
RollbackLoad(p, user, c) ==
    /\ Begin(p)
    /\ \/ /\ ChangesById(c) = {}
          /\ Return(p, error(404, "Change not found"))
       \/ \E targetChange \in ChangesById(c) :
            IF targetChange.status # "approved"
              THEN Return(p, error(400, "Can only rollback approved changes"))
              ELSE Enter(p, "r_previous",
                         [NoReq EXCEPT !.op = "rollback", !.user = user,
                                       !.changeId = c],
                         [NoLocal EXCEPT !.change = Some(targetChange)])
    /\ UNCHANGED <<live, previousStage, staging, ledger, clock, staged, minted>>

\* RollbackReadPrevious, had it fallen back on the current values when there
\* is no previous version.
RollbackReadPreviousOrCurrent(p) ==
    /\ pc[p] = "r_previous"
    /\ LET t == local[p].change[1].target
           rollbackValues == getSecretByVersionStage(t)
       IN  Goto(p, "r_put",
                [local[p] EXCEPT !.rollbackValues =
                    IF rollbackValues = None THEN Some(CurrentValues(t))
                    ELSE rollbackValues])
    /\ UNCHANGED <<live, previousStage, staging, ledger, clock, staged, minted, started>>

\* getSecretByVersionStage(project, env, 'AWSPREVIOUS').
RollbackReadPrevious(p) ==
    /\ pc[p] = "r_previous"
    /\ LET rollbackValues ==
                getSecretByVersionStage(local[p].change[1].target)
       IN  IF rollbackValues = None
             THEN Return(p, error(400, "Previous version not available"))
             ELSE Goto(p, "r_put",
                       [local[p] EXCEPT !.rollbackValues = rollbackValues])
    /\ UNCHANGED <<live, previousStage, staging, ledger, clock, staged, minted, started>>

\* putSecretValue(project, env, rollbackValues).
RollbackPut(p) ==
    /\ pc[p] = "r_put"
    /\ Len(live[local[p].change[1].target]) < MaxVersion
    /\ live' = putSecretValue(local[p].change[1].target,
                              local[p].rollbackValues[1])
    /\ previousStage' = movePreviousStage(local[p].change[1].target)
    /\ Goto(p, "r_record", local[p])
    /\ UNCHANGED <<staging, ledger, clock, staged, minted, started>>

\* The key of the rollback record's one diff entry: `[rollback of <id>]`.
RollbackKey(c) ==
    CASE c = "c1" -> "[rollback of c1]"
      [] c = "c2" -> "[rollback of c2]"
      [] c = "c3" -> "[rollback of c3]"
      [] c = "r1" -> "[rollback of r1]"
      [] c = "r2" -> "[rollback of r2]"
      [] OTHER -> "[rollback of r3]"

\* The rollback record's reason: `Rollback: ${body.reason}`.
RollbackReason(reason) == "Rollback: " \o reason

\* The ChangeRequest item rollback builds.
RollbackChange(t, rollbackId, targetId, user, rollbackValues, createdAt) ==
    [pk |-> t, sk |-> buildSk(createdAt, rollbackId),
     changeId |-> rollbackId, target |-> t, status |-> "approved",
     proposedBy |-> user, stagingSecretName |-> "",
     diff |-> <<[type |-> "modified", key |-> RollbackKey(targetId)]>>,
     diffCount |-> Cardinality(DOMAIN rollbackValues),
     reason |-> RollbackReason("fix"), createdAt |-> createdAt,
     secretVersionId |-> NoVersion, reviewedBy |-> user,
     reviewedAt |-> createdAt, comment |-> "",
     previousVersionId |-> NoVersion,
     currentKeys |-> Some(ObjectKeys(rollbackValues))]

RollbackRecordOverTarget(p) ==
    /\ pc[p] = "r_record"
    /\ minted < MaxRollbacks
    /\ Cardinality(ledger) < MaxRecords
    /\ minted' = minted + 1
    /\ ledger' = putChange([RollbackChange(local[p].change[1].target,
                    RollbackIdSeq[minted + 1], req[p].changeId, req[p].user,
                    local[p].rollbackValues[1], clock)
                        EXCEPT !.sk = local[p].change[1].sk])
    /\ Return(p, ok("Rolled back"))
    /\ UNCHANGED <<live, previousStage, staging, clock, staged, started>>

\* uuidv4(), new Date(), putChange(rollbackChange) and the 200 response.
RollbackRecord(p) ==
    /\ pc[p] = "r_record"
    /\ minted < MaxRollbacks
    /\ Cardinality(ledger) < MaxRecords
    /\ minted' = minted + 1
    /\ ledger' = putChange(RollbackChange(local[p].change[1].target,
                    RollbackIdSeq[minted + 1], req[p].changeId, req[p].user,
                    local[p].rollbackValues[1], clock))
    /\ Return(p, ok("Rolled back"))
    /\ UNCHANGED <<live, previousStage, staging, clock, staged, started>>

\* ------------------------------------------------------------------ cleanup

\* The loop's next iteration, up to its first store call: the age check
\* sends a secret older than MAX_AGE_DAYS straight to deletion, any other to
\* the lookup of its change. The handler returns when the list is exhausted.
CleanupContinue(p, rest, now) ==
    IF rest = {}
      THEN Return(p, NoResp)
      ELSE \E secret \in rest :
             Enter(p, IF now - secret.createdAt > MAX_AGE_DAYS
                        THEN "c_delete" ELSE "c_lookup",
                   [NoReq EXCEPT !.op = "cleanup"],
                   [NoLocal EXCEPT !.stagingSecrets = rest \ {secret},
                                   !.secret = Some(secret),
                                   !.now = now])

\* listStagingSecrets() and new Date().
CleanupList(p) ==
    /\ Begin(p)
    /\ CleanupContinue(p, listStagingSecrets, clock)
    /\ UNCHANGED <<live, previousStage, staging, ledger, clock, staged, minted>>

\* CleanupLookup, had the sweep kept a staging secret whose change is not in
\* the ledger.
CleanupLookupKeepsOrphans(p) ==
    /\ pc[p] = "c_lookup"
    /\ \/ /\ ChangesById(local[p].secret[1].changeId) = {}
          /\ CleanupContinue(p, local[p].stagingSecrets, local[p].now)
       \/ \E change \in ChangesById(local[p].secret[1].changeId) :
            IF change.status # "pending"
              THEN Goto(p, "c_delete", local[p])
              ELSE CleanupContinue(p, local[p].stagingSecrets, local[p].now)
    /\ UNCHANGED <<live, previousStage, staging, ledger, clock, staged, minted, started>>

\* getChangeById(secret.changeId): delete when the change is resolved or
\* there is none.
CleanupLookup(p) ==
    /\ pc[p] = "c_lookup"
    /\ \/ /\ ChangesById(local[p].secret[1].changeId) = {}
          /\ Goto(p, "c_delete", local[p])
       \/ \E change \in ChangesById(local[p].secret[1].changeId) :
            IF change.status # "pending"
              THEN Goto(p, "c_delete", local[p])
              ELSE CleanupContinue(p, local[p].stagingSecrets, local[p].now)
    /\ UNCHANGED <<live, previousStage, staging, ledger, clock, staged, minted, started>>

\* deleteStagingSecret(secret.changeId).
CleanupDelete(p) ==
    /\ pc[p] = "c_delete"
    /\ staging' = deleteStagingSecret(local[p].secret[1].changeId)
    /\ CleanupContinue(p, local[p].stagingSecrets, local[p].now)
    /\ UNCHANGED <<live, previousStage, ledger, clock, staged, minted, started>>

\* CleanupDeleteFails, had the sweep had no catch around the delete.
CleanupDeleteAborts(p) ==
    /\ pc[p] = "c_delete"
    /\ Return(p, NoResp)
    /\ UNCHANGED <<live, previousStage, staging, ledger, clock, staged, minted, started>>

\* deleteStagingSecret(secret.changeId) throws (anything other than
\* ResourceNotFoundException): the catch around it logs the failure and the
\* loop goes on with the next listed secret.
CleanupDeleteFails(p) ==
    /\ pc[p] = "c_delete"
    /\ CleanupContinue(p, local[p].stagingSecrets, local[p].now)
    /\ UNCHANGED <<live, previousStage, staging, ledger, clock, staged, minted, started>>

\* ------------------------------------------------ diff, list, history (read)

\* The diff handler's 200 body: the item's metadata, its diff and its
\* review.
okDiff(change) ==
    [statusCode |-> 200, message |-> "diff",
     changeId |-> change.changeId, target |-> change.target,
     status |-> change.status, proposedBy |-> change.proposedBy,
     reason |-> change.reason, createdAt |-> change.createdAt,
     diff |-> change.diff, diffCount |-> change.diffCount,
     reviewedBy |-> change.reviewedBy, reviewedAt |-> change.reviewedAt,
     comment |-> change.comment]

\* getChangeById and the item's metadata.
DiffLoad(p, c) ==
    /\ Begin(p)
    /\ \/ /\ ChangesById(c) = {}
          /\ Return(p, error(404, "Change not found"))
       \/ \E change \in ChangesById(c) : Return(p, okDiff(change))
    /\ UNCHANGED <<live, previousStage, staging, ledger, clock, staged, minted>>

\* One entry of the list handler's `changes`.
ChangeSummary(c) ==
    [changeId |-> c.changeId, target |-> c.target, status |-> c.status,
     proposedBy |-> c.proposedBy, diffCount |-> c.diffCount,
     reason |-> c.reason, createdAt |-> c.createdAt,
     reviewedBy |-> c.reviewedBy, reviewedAt |-> c.reviewedAt]

\* The list handler with no status filter and a limit no smaller than the
\* ledger: queryChangesByStatus for each status, merged, and the summaries
\* of the items (their order is left out).
ListQuery(p) ==
    /\ Begin(p)
    /\ Return(p, [statusCode |-> 200, message |-> "changes",
                  changes |-> {ChangeSummary(c) : c \in ledger}])
    /\ UNCHANGED <<live, previousStage, staging, ledger, clock, staged, minted>>

\* The order of the sort keys `CHANGE#${createdAt}#${changeId}`.
IdRank(c) ==
    CHOOSE i \in 1..6 : <<"c1", "c2", "c3", "r1", "r2", "r3">>[i] = c
SkBefore(a, b) ==
    a[1] < b[1] \/ (a[1] = b[1] /\ IdRank(a[2]) < IdRank(b[2]))

\* queryChangesByProject: the items of one (project, env), latest sort key
\* first (ScanIndexForward: false).
RECURSIVE Descending(_)
Descending(items) ==
    IF items = {} THEN <<>>
    ELSE LET latest == CHOOSE r \in items :
                          \A o \in items \ {r} : SkBefore(o.sk, r.sk)
         IN  <<latest>> \o Descending(items \ {latest})
queryChangesByProject(t) == Descending({r \in ledger : r.pk = t})

\* One entry of the history handler's `history`.
HistoryEntry(c) ==
    [changeId |-> c.changeId, status |-> c.status,
     proposedBy |-> c.proposedBy, diffCount |-> c.diffCount,
     diff |-> c.diff, reason |-> c.reason, createdAt |-> c.createdAt,
     reviewedBy |-> c.reviewedBy, reviewedAt |-> c.reviewedAt,
     comment |-> c.comment]

\* The history handler with a limit no smaller than the ledger:
\* queryChangesByProject, the currentKeys of the latest approved item that
\* has them ([] when there is none), and the history of the items.
HistoryQuery(p, t) ==
    /\ Begin(p)
    /\ LET changes == queryChangesByProject(t)
           approved == SelectSeq(changes,
                          LAMBDA c : c.status = "approved"
                                        /\ c.currentKeys # None)
       IN  Return(p, [statusCode |-> 200, message |-> "history",
                      history |-> [i \in 1..Len(changes) |->
                                        HistoryEntry(changes[i])],
                      currentKeys |-> IF approved = <<>> THEN <<>>
                                      ELSE approved[1].currentKeys[1]])
    /\ UNCHANGED <<live, previousStage, staging, ledger, clock, staged, minted>>

\* ------------------------------------------------------- history, paginated

DEFAULT_LIMIT == 50
MAX_LIMIT == 100

\* The `limit` query parameter: absent (None) or a number. parseInt of it,
\* DEFAULT_LIMIT when absent or below 1, at most MAX_LIMIT.
EffectiveLimit(limitParam) ==
    IF limitParam = None THEN DEFAULT_LIMIT
    ELSE IF limitParam[1] < 1 THEN DEFAULT_LIMIT
    ELSE IF limitParam[1] > MAX_LIMIT THEN MAX_LIMIT
    ELSE limitParam[1]

\* The nextToken of a response: JSON.stringify of the store's
\* LastEvaluatedKey, base64-encoded.
EncodeNextToken(key) == <<"base64", <<"json", <<"pk", key.pk>>, <<"sk", key.sk>>>>>>

\* JSON.parse of the base64-decoded `nextToken` query parameter: the key
\* object, or None when JSON.parse throws.
DecodeNextToken(token) ==
    IF /\ DOMAIN token = 1..2 /\ token[1] = "base64"
       /\ DOMAIN token[2] = 1..3 /\ token[2][1] = "json"
      THEN Some([pk |-> token[2][2][2], sk |-> token[2][3][2]])
      ELSE None

\* A `nextToken` that is not the encoding of anything.
BadToken == <<"garbage">>

\* queryChangesByProjectPage, had the start key been taken as the first key
\* to return.
queryChangesByProjectFromKey(t, limit, exclusiveStartKey) ==
    LET all == Descending({r \in ledger : r.pk = t})
        after == IF exclusiveStartKey = None THEN all
                 ELSE SelectSeq(all, LAMBDA r :
                        ~SkBefore(exclusiveStartKey[1].sk, r.sk))
        count == IF Len(after) < limit THEN Len(after) ELSE limit
    IN  [items |-> SubSeq(after, 1, count),
         lastEvaluatedKey |->
            IF Len(after) >= limit
              THEN Some([pk |-> after[limit].pk, sk |-> after[limit].sk])
              ELSE None]

\* queryChangesByProject with Limit and ExclusiveStartKey: a Query of one
\* partition, latest sort key first, that starts after the start key, stops
\* once it has read `limit` items, and then reports the key of the last
\* item it read as LastEvaluatedKey.
queryChangesByProjectPage(t, limit, exclusiveStartKey) ==
    LET all == Descending({r \in ledger : r.pk = t})
        after == IF exclusiveStartKey = None THEN all
                 ELSE SelectSeq(all, LAMBDA r :
                        SkBefore(r.sk, exclusiveStartKey[1].sk))
        count == IF Len(after) < limit THEN Len(after) ELSE limit
    IN  [items |-> SubSeq(after, 1, count),
         lastEvaluatedKey |->
            IF Len(after) >= limit
              THEN Some([pk |-> after[limit].pk, sk |-> after[limit].sk])
              ELSE None]

\* The history handler's answer to (project, env), `limit` and `nextToken`:
\* 400 for a nextToken that does not parse, else the page queried, the
\* currentKeys of its latest approved item, and a nextToken when the store
\* reported a LastEvaluatedKey.
historyResponse(t, limitParam, nextTokenParam) ==
    LET exclusiveStartKey ==
            IF nextTokenParam = None THEN None
            ELSE DecodeNextToken(nextTokenParam[1])
        page == queryChangesByProjectPage(t, EffectiveLimit(limitParam),
                                          exclusiveStartKey)
        changes == page.items
        approved == SelectSeq(changes,
                        LAMBDA c : c.status = "approved"
                                      /\ c.currentKeys # None)
        body == [statusCode |-> 200, message |-> "history",
                 history |-> [i \in 1..Len(changes) |->
                                    HistoryEntry(changes[i])],
                 currentKeys |-> IF approved = <<>> THEN <<>>
                                 ELSE approved[1].currentKeys[1]]
    IN  IF nextTokenParam # None /\ exclusiveStartKey = None
          THEN error(400, "Invalid nextToken")
        ELSE IF page.lastEvaluatedKey = None THEN body
        ELSE [f \in DOMAIN body \cup {"nextToken"} |->
                IF f = "nextToken"
                  THEN EncodeNextToken(page.lastEvaluatedKey[1])
                  ELSE body[f]]

\* GET /history/{project}/{env}?limit=&nextToken=
HistoryPage(p, t, limitParam, nextTokenParam) ==
    /\ Begin(p)
    /\ Return(p, historyResponse(t, limitParam, nextTokenParam))
    /\ UNCHANGED <<live, previousStage, staging, ledger, clock, staged, minted>>

\* ------------------------------------------------------------ list, by status

\* The orders in which the status-index may return the items of one
\* partition, latest createdAt first (ScanIndexForward: false): the index's
\* sort key is createdAt alone, and the order among items with equal
\* createdAt is the store's.
IndexOrders(items) ==
    {s \in [1..Cardinality(items) -> items] :
        \A i, j \in 1..Cardinality(items) :
            i < j => s[i] # s[j] /\ s[i].createdAt >= s[j].createdAt}

\* The key of an item in the status-index: the index's keys and the table's.
StatusIndexKey(r) ==
    [status |-> r.status, createdAt |-> r.createdAt, pk |-> r.pk, sk |-> r.sk]

\* The nextToken of a list response and its decoding, as in the history
\* handler.
EncodeListToken(key) ==
    <<"base64", <<"json", <<"status", key.status>>,
                          <<"createdAt", key.createdAt>>,
                          <<"pk", key.pk>>, <<"sk", key.sk>>>>>>
DecodeListToken(token) ==
    IF /\ DOMAIN token = 1..2 /\ token[1] = "base64"
       /\ DOMAIN token[2] = 1..5 /\ token[2][1] = "json"
      THEN Some([status |-> token[2][2][2], createdAt |-> token[2][3][2],
                 pk |-> token[2][4][2], sk |-> token[2][5][2]])
      ELSE None

\* queryChangesByStatus, had the index been read oldest first.
queryChangesByStatusAscending(order, limit, exclusiveStartKey) ==
    LET all == [i \in 1..Len(order) |-> order[Len(order) + 1 - i]]
        at == {i \in 1..Len(all) :
                    exclusiveStartKey # None
                    /\ StatusIndexKey(all[i]) = exclusiveStartKey[1]}
        after == IF exclusiveStartKey = None THEN all
                 ELSE IF at # {}
                   THEN SubSeq(all, (CHOOSE i \in at : TRUE) + 1, Len(all))
                 ELSE SelectSeq(all, LAMBDA r :
                        r.createdAt > exclusiveStartKey[1].createdAt)
        count == IF Len(after) < limit THEN Len(after) ELSE limit
    IN  [items |-> SubSeq(after, 1, count),
         lastEvaluatedKey |->
            IF Len(after) >= limit
              THEN Some(StatusIndexKey(after[limit])) ELSE None]

\* queryChangesByStatus(status, limit, exclusiveStartKey): a Query of one
\* partition of the status-index, read in `order`, that starts after the
\* start key, stops once it has read `limit` items, and then reports the
\* key of the last item it read.
queryChangesByStatus(order, limit, exclusiveStartKey) ==
    LET all == order
        at == {i \in 1..Len(all) :
                    exclusiveStartKey # None
                    /\ StatusIndexKey(all[i]) = exclusiveStartKey[1]}
        after == IF exclusiveStartKey = None THEN all
                 ELSE IF at # {}
                   THEN SubSeq(all, (CHOOSE i \in at : TRUE) + 1, Len(all))
                 ELSE SelectSeq(all, LAMBDA r :
                        r.createdAt < exclusiveStartKey[1].createdAt)
        count == IF Len(after) < limit THEN Len(after) ELSE limit
    IN  [items |-> SubSeq(after, 1, count),
         lastEvaluatedKey |->
            IF Len(after) >= limit
              THEN Some(StatusIndexKey(after[limit])) ELSE None]

\* changes.sort((a, b) => b.createdAt.localeCompare(a.createdAt)): latest
\* createdAt first, items with equal createdAt in the order they had (the
\* sort is stable).
RECURSIVE SortByCreatedAtDesc(_)
SortByCreatedAtDesc(changes) ==
    IF changes = <<>> THEN <<>>
    ELSE LET first == CHOOSE i \in 1..Len(changes) :
                        /\ \A j \in 1..Len(changes) :
                              changes[j].createdAt <= changes[i].createdAt
                        /\ \A j \in 1..(i - 1) :
                              changes[j].createdAt < changes[i].createdAt
         IN  <<changes[first]>> \o
             SortByCreatedAtDesc(SubSeq(changes, 1, first - 1)
                                 \o SubSeq(changes, first + 1, Len(changes)))

StatusNames == {"pending", "approved", "rejected"}

\* The list handler's answer to `status`, `limit` and `nextToken`, the
\* status-index returning each partition in orders[status]: 400 for a
\* nextToken that does not parse; with a status filter, one page of that
\* status and its nextToken; with none (or one that names no status), the
\* first `limit` items of each status, merged, sorted and cut to `limit`,
\* with no nextToken.
listResponse(statusFilter, limitParam, nextTokenParam, orders) ==
    LET limit == EffectiveLimit(limitParam)
        exclusiveStartKey ==
            IF nextTokenParam = None THEN None
            ELSE DecodeListToken(nextTokenParam[1])
        filtered == statusFilter # None /\ statusFilter[1] \in StatusNames
        page == queryChangesByStatus(orders[statusFilter[1]], limit,
                                     exclusiveStartKey)
        merged == SortByCreatedAtDesc(
                    queryChangesByStatus(orders["pending"], limit, None).items
                    \o queryChangesByStatus(orders["approved"], limit,
                                            None).items
                    \o queryChangesByStatus(orders["rejected"], limit,
                                            None).items)
        changes == IF filtered THEN page.items
                   ELSE SubSeq(merged, 1,
                               IF Len(merged) < limit THEN Len(merged)
                               ELSE limit)
        body == [statusCode |-> 200, message |-> "changes",
                 changes |-> [i \in 1..Len(changes) |->
                                    ChangeSummary(changes[i])]]
    IN  IF nextTokenParam # None /\ exclusiveStartKey = None
          THEN error(400, "Invalid nextToken")
        ELSE IF ~filtered \/ page.lastEvaluatedKey = None THEN body
        ELSE [f \in DOMAIN body \cup {"nextToken"} |->
                IF f = "nextToken"
                  THEN EncodeListToken(page.lastEvaluatedKey[1])
                  ELSE body[f]]

\* GET /changes?status=&limit=&nextToken=: the query parameters are read and
\* the nextToken parsed (400 when it does not parse) before the store is
\* queried.
ListRequest(statusFilter, limitParam, nextTokenParam) ==
    [op |-> "list", changeId |-> "", user |-> "", target |-> "",
     comment |-> "", statusFilter |-> statusFilter,
     limitParam |-> limitParam, nextTokenParam |-> nextTokenParam]

ListChanges(p, statusFilter, limitParam, nextTokenParam) ==
    /\ Begin(p)
    /\ IF nextTokenParam # None /\ DecodeListToken(nextTokenParam[1]) = None
         THEN Return(p, error(400, "Invalid nextToken"))
         ELSE Enter(p, "l_query",
                    ListRequest(statusFilter, limitParam, nextTokenParam),
                    NoLocal)
    /\ UNCHANGED <<live, previousStage, staging, ledger, clock, staged, minted>>

\* queryChangesByStatus, once with a status filter, else once for each
\* status (Promise.all), and the 200 response.
ListQueryByStatus(p) ==
    /\ pc[p] = "l_query"
    /\ \E pending \in IndexOrders({r \in ledger : r.status = "pending"}),
          approved \in IndexOrders({r \in ledger : r.status = "approved"}),
          rejected \in IndexOrders({r \in ledger : r.status = "rejected"}) :
            Return(p, listResponse(req[p].statusFilter, req[p].limitParam,
                        req[p].nextTokenParam,
                        [s \in StatusNames |->
                            IF s = "pending" THEN pending
                            ELSE IF s = "approved" THEN approved
                            ELSE rejected]))
    /\ UNCHANGED <<live, previousStage, staging, ledger, clock, staged, minted, started>>

\* ----------------------------------------------------------------- failures

\* Throw, had approve deleted the staging secret in a `finally` around its
\* write to the live secret.
ThrowAfterDelete(p) ==
    /\ pc[p] # "c_delete"
    /\ staging' = IF pc[p] = "a_put"
                    THEN deleteStagingSecret(req[p].changeId)
                    ELSE staging
    /\ Return(p, IF req[p].op = "cleanup" THEN NoResp
                 ELSE error(500, "Internal server error"))
    /\ UNCHANGED <<live, previousStage, ledger, clock, staged, minted, started>>

\* A store call throws: the handler's catch block answers 500. (The cleanup
\* handler has no catch block and no response; a throw of its delete is
\* caught inside the loop, see CleanupDeleteFails.)
Throw(p) ==
    /\ pc[p] # "c_delete"
    /\ Return(p, IF req[p].op = "cleanup" THEN NoResp
                 ELSE error(500, "Internal server error"))
    /\ UNCHANGED <<live, previousStage, staging, ledger, clock, staged, minted, started>>

\* ------------------------------------------------------------ specification

\* The stack creates every live secret with the value {}.
Init ==
    /\ live = [t \in ConfiguredTargets |-> <<EmptyMap>>]
    /\ previousStage = [t \in ConfiguredTargets |-> FALSE]
    /\ staging = [c \in ChangeIds |-> None]
    /\ staged = 0
    /\ ledger = {}
    /\ clock = 0
    /\ minted = 0
    /\ started = 0
    /\ pc = [p \in Procs |-> "idle"]
    /\ req = [p \in Procs |-> NoReq]
    /\ local = [p \in Procs |-> NoLocal]
    /\ resp = NoResp

Environment ==
    \/ Tick
    \/ \E s \in StagedPayloads : StageCreate(s[1], s[2])

\* A request arrives: its handler runs up to and including its first store
\* call.
ReviewFirst(p) ==
    \/ \E u \in Users, c \in RequestIds, m \in Comments :
            ApproveLoad(p, u, c, m)
    \/ \E u \in Users, c \in RequestIds, m \in Comments :
            RejectLoad(p, u, c, m)
    \/ \E u \in Users, c \in RequestIds : RollbackLoad(p, u, c)

WriterFirst(p) ==
    \/ \E u \in Users, t \in ConfiguredTargets, c \in ChangeIds :
            ProposeReadStaging(p, u, t, c)
    \/ ReviewFirst(p)

First(p) ==
    \/ \E t \in AllTargets, prefixed \in BOOLEAN, reason \in {"", "fix"} :
            ProposeBadRequest(p, t, prefixed, reason)
    \/ RollbackBadRequest(p)
    \/ WriterFirst(p)
    \/ CleanupList(p)
    \/ \E c \in RequestIds : DiffLoad(p, c)
    \/ ListQuery(p)
    \/ \E t \in AllTargets : HistoryQuery(p, t)

\* An invocation in flight makes its next store call.
WriterLater(p) ==
    \/ ProposeReadCurrent(p) \/ ProposePut(p)
    \/ ApproveVersionCheck(p) \/ ApproveReadStaging(p)
    \/ ApproveReadPrevious(p) \/ ApprovePut(p) \/ ApproveDeleteStaging(p)
    \/ ApproveUpdate(p)
    \/ RejectDeleteStaging(p) \/ RejectUpdate(p)
    \/ RollbackReadPrevious(p) \/ RollbackPut(p) \/ RollbackRecord(p)
    \/ Throw(p)

Later(p) ==
    \/ WriterLater(p)
    \/ CleanupLookup(p) \/ CleanupDelete(p) \/ CleanupDeleteFails(p)

Next == Environment \/ \E p \in Procs : First(p) \/ Later(p)

Spec == Init /\ [][Next]_vars

\* One invocation at a time: a request arrives only when no invocation is in
\* flight.
Quiet == \A p \in Procs : Idle(p)

SeqNext ==
    \/ Environment
    \/ \E p \in Procs : Later(p)
    \/ \E p \in Procs, t \in AllTargets, prefixed \in BOOLEAN,
          reason \in {"", "fix"} :
            Quiet /\ ProposeBadRequest(p, t, prefixed, reason)
    \/ \E p \in Procs, u \in Users, t \in ConfiguredTargets, c \in ChangeIds :
            Quiet /\ ProposeReadStaging(p, u, t, c)
    \/ \E p \in Procs, u \in Users, c \in RequestIds, m \in Comments :
            Quiet /\ ApproveLoad(p, u, c, m)
    \/ \E p \in Procs, u \in Users, c \in RequestIds, m \in Comments :
            Quiet /\ RejectLoad(p, u, c, m)
    \/ \E p \in Procs : Quiet /\ RollbackBadRequest(p)
    \/ \E p \in Procs, u \in Users, c \in RequestIds :
            Quiet /\ RollbackLoad(p, u, c)
    \/ \E p \in Procs : Quiet /\ CleanupList(p)
    \/ \E p \in Procs, c \in RequestIds : Quiet /\ DiffLoad(p, c)
    \/ \E p \in Procs : Quiet /\ ListQuery(p)
    \/ \E p \in Procs, t \in AllTargets : Quiet /\ HistoryQuery(p, t)

SeqSpec == Init /\ [][SeqNext]_vars

\* Concurrent invocations of the handlers that write the ledger and the live
\* secrets, all within one reading of the clock.
RaceNext ==
    \/ \E s \in StagedPayloads : StageCreate(s[1], s[2])
    \/ \E p \in Procs : WriterFirst(p) \/ WriterLater(p)

RaceSpec == Init /\ [][RaceNext]_vars

\* The same, with the proposals the CLI makes: sr propose posts each staging
\* secret it has created once.
FirstProposal(c) ==
    /\ ChangesById(c) = {}
    /\ \A q \in Procs : req[q].op = "propose" => req[q].changeId # c

CliNext ==
    \/ \E s \in StagedPayloads : StageCreate(s[1], s[2])
    \/ \E p \in Procs :
          \/ \E u \in Users, t \in ConfiguredTargets, c \in ChangeIds :
                FirstProposal(c) /\ ProposeReadStaging(p, u, t, c)
          \/ ReviewFirst(p)
          \/ WriterLater(p)

CliSpec == Init /\ [][CliNext]_vars

\* The same, with an operator who may detach a live secret's AWSPREVIOUS
\* label.
OpsNext ==
    \/ CliNext
    \/ \E t \in ConfiguredTargets : RemovePreviousStage(t)

OpsSpec == Init /\ [][OpsNext]_vars

\* Proposals alone: concurrent invocations of propose, valid or not, over
\* the staging secrets the proposers create.
ProposeNext ==
    \/ \E s \in StagedPayloads : StageCreate(s[1], s[2])
    \/ \E p \in Procs, t \in AllTargets, prefixed \in BOOLEAN,
          reason \in {"", "fix"} :
            ProposeBadRequest(p, t, prefixed, reason)
    \/ \E p \in Procs, u \in Users, t \in ConfiguredTargets, c \in ChangeIds :
            ProposeReadStaging(p, u, t, c)
    \/ \E p \in Procs : ProposeReadCurrent(p)
    \/ \E p \in Procs : ProposePut(p)
    \/ \E p \in Procs : Throw(p)

ProposeSpec == Init /\ [][ProposeNext]_vars

\* computeDiff over every pair of mappings. The live secret holds any
\* baseline, one staging secret any proposed values (the CLI stages no empty
\* mapping), and propose is called on it.
DiffInit ==
    /\ \E baseline \in Maps, proposed \in Maps \ {EmptyMap} :
          /\ live = [t \in ConfiguredTargets |-> <<EmptyMap, baseline>>]
          /\ staging = [c \in ChangeIds |->
                IF c = ChangeIdSeq[1]
                  THEN Some([proposed |-> proposed, previous |-> baseline,
                             target |-> "app/prod", tagged |-> TRUE,
                             createdAt |-> 0])
                  ELSE None]
    /\ previousStage = [t \in ConfiguredTargets |-> TRUE]
    /\ staged = 1
    /\ ledger = {}
    /\ clock = 0
    /\ minted = 0
    /\ started = 0
    /\ pc = [p \in Procs |-> "idle"]
    /\ req = [p \in Procs |-> NoReq]
    /\ local = [p \in Procs |-> NoLocal]
    /\ resp = NoResp

DiffNext ==
    \/ \E p \in Procs, u \in Users, t \in ConfiguredTargets, c \in ChangeIds :
            FirstProposal(c) /\ ProposeReadStaging(p, u, t, c)
    \/ \E p \in Procs : ProposeReadCurrent(p)
    \/ \E p \in Procs : ProposePut(p)

DiffSpec == DiffInit /\ [][DiffNext]_vars

\* The writers and the readers of the ledger, one invocation at a time:
\* propose, approve, reject and rollback, and the diff, list and history
\* reads.
ReadNext ==
    \/ \E s \in StagedPayloads : StageCreate(s[1], s[2])
    \/ \E p \in Procs, u \in Users, t \in ConfiguredTargets, c \in ChangeIds :
            Quiet /\ FirstProposal(c) /\ ProposeReadStaging(p, u, t, c)
    \/ \E p \in Procs, u \in Users, c \in RequestIds, m \in Comments :
            Quiet /\ ApproveLoad(p, u, c, m)
    \/ \E p \in Procs, u \in Users, c \in RequestIds, m \in Comments :
            Quiet /\ RejectLoad(p, u, c, m)
    \/ \E p \in Procs, u \in Users, c \in RequestIds :
            Quiet /\ RollbackLoad(p, u, c)
    \/ \E p \in Procs : WriterLater(p)
    \/ \E p \in Procs, c \in RequestIds : Quiet /\ DiffLoad(p, c)
    \/ \E p \in Procs : Quiet /\ ListQuery(p)
    \/ \E p \in Procs, t \in AllTargets : Quiet /\ HistoryQuery(p, t)

ReadSpec == Init /\ [][ReadNext]_vars

\* The daily sweep beside the reviews: proposals, approvals and rejections
\* one at a time, with one run of the cleanup handler concurrent with them,
\* while days and the retention window pass between invocations.
NoOtherRequest == \A q \in Procs : Idle(q) \/ req[q].op = "cleanup"

SweepNext ==
    \/ \E t \in AllTargets : StageCreate(t, MapA)
    \/ Quiet /\ Tick
    \/ Quiet /\ WeekPasses
    \/ \E p \in Procs, u \in Users, t \in ConfiguredTargets, c \in ChangeIds :
            NoOtherRequest /\ FirstProposal(c) /\ ProposeReadStaging(p, u, t, c)
    \/ \E p \in Procs, u \in Users, c \in ChangeIds, m \in Comments :
            NoOtherRequest /\ ApproveLoad(p, u, c, m)
    \/ \E p \in Procs, u \in Users, c \in ChangeIds, m \in Comments :
            NoOtherRequest /\ RejectLoad(p, u, c, m)
    \/ \E p \in Procs :
            (\A q \in Procs : req[q].op # "cleanup") /\ CleanupList(p)
    \/ \E p \in Procs :
          \/ ProposeReadCurrent(p) \/ ProposePut(p)
          \/ ApproveVersionCheck(p) \/ ApproveReadStaging(p)
          \/ ApproveReadPrevious(p) \/ ApprovePut(p)
          \/ ApproveDeleteStaging(p) \/ ApproveUpdate(p)
          \/ RejectDeleteStaging(p) \/ RejectUpdate(p)
          \/ CleanupLookup(p) \/ CleanupDelete(p)

SweepSpec == Init /\ [][SweepNext]_vars



\* The retention window passes in full: new Date() moves on by more than
\* MAX_AGE_DAYS.
RetentionPasses ==
    /\ clock <= MaxTime
    /\ clock' = clock + MAX_AGE_DAYS + 1
    /\ resp' = NoResp
    /\ UNCHANGED <<live, previousStage, staging, ledger, staged, minted, started, pc, req, local>>

\* The schedule invokes the cleanup handler (once a day, one run at a time):
\* listStagingSecrets() and new Date(). Scheduled runs are not requests and
\* go on for as long as the stack exists.
CleanupScheduled(p) ==
    /\ Idle(p)
    /\ \A q \in 1..(p - 1) : ~Idle(q)
    /\ \A q \in Procs : req[q].op # "cleanup"
    /\ CleanupContinue(p, listStagingSecrets, clock)
    /\ UNCHANGED <<live, previousStage, staging, ledger, clock, staged, minted, started>>

\* The life of the staging secrets: proposers stage (CreateSecret, then
\* TagResource unless the CLI ends in between), proposals, approvals and
\* rejections run one at a time and may fail at any store call, the
\* scheduled sweep runs beside them, and the retention window passes.
LifeNext ==
    \/ \E t \in AllTargets : clock <= MaxTime /\ StageCreateSecret(t, MapA)
    \/ \E c \in ChangeIds : clock <= MaxTime /\ StageTagResource(c)
    \/ RetentionPasses
    \/ \E p \in Procs, u \in Users, t \in ConfiguredTargets, c \in ChangeIds :
            NoOtherRequest /\ FirstProposal(c) /\ ProposeReadStaging(p, u, t, c)
    \/ \E p \in Procs, u \in Users, c \in ChangeIds, m \in Comments :
            NoOtherRequest /\ ApproveLoad(p, u, c, m)
    \/ \E p \in Procs, u \in Users, c \in ChangeIds, m \in Comments :
            NoOtherRequest /\ RejectLoad(p, u, c, m)
    \/ \E p \in Procs : ProposeReadCurrent(p)
    \/ \E p \in Procs : ProposePut(p)
    \/ \E p \in Procs : ApproveVersionCheck(p)
    \/ \E p \in Procs : ApproveReadStaging(p)
    \/ \E p \in Procs : ApproveReadPrevious(p)
    \/ \E p \in Procs : ApprovePut(p)
    \/ \E p \in Procs : ApproveDeleteStaging(p)
    \/ \E p \in Procs : ApproveUpdate(p)
    \/ \E p \in Procs : RejectDeleteStaging(p)
    \/ \E p \in Procs : RejectUpdate(p)
    \/ \E p \in Procs : ~Idle(p) /\ Throw(p)
    \/ \E p \in Procs : CleanupScheduled(p)
    \/ \E p \in Procs : CleanupLookup(p)
    \/ \E p \in Procs : CleanupDelete(p)
    \/ \E p \in Procs : CleanupDeleteFails(p)

\* The schedule keeps invoking the sweep, a sweep under way makes its next
\* store call, a delete that is attempted again and again succeeds, and
\* the retention window passes.
LifeFairness ==
    /\ WF_vars(RetentionPasses)
    /\ \A p \in Procs :
          /\ SF_vars(CleanupScheduled(p))
          /\ SF_vars(CleanupLookup(p))
          /\ SF_vars(CleanupDelete(p))

LifeSpec == Init /\ [][LifeNext]_vars /\ LifeFairness

\* The sweep with failing deletes: proposals and rejections one at a time,
\* one run of the cleanup handler beside them, any of its deletes failing,
\* while the retention window passes between invocations.
IsolationNext ==
    \/ \E t \in AllTargets : StageCreate(t, MapA)
    \/ Quiet /\ RetentionPasses
    \/ \E p \in Procs, u \in Users, t \in ConfiguredTargets, c \in ChangeIds :
            NoOtherRequest /\ FirstProposal(c) /\ ProposeReadStaging(p, u, t, c)
    \/ \E p \in Procs, u \in Users, c \in ChangeIds, m \in Comments :
            NoOtherRequest /\ RejectLoad(p, u, c, m)
    \/ \E p \in Procs :
            (\A q \in Procs : req[q].op # "cleanup") /\ CleanupList(p)
    \/ \E p \in Procs : ProposeReadCurrent(p)
    \/ \E p \in Procs : ProposePut(p)
    \/ \E p \in Procs : RejectDeleteStaging(p)
    \/ \E p \in Procs : RejectUpdate(p)
    \/ \E p \in Procs : CleanupLookup(p)
    \/ \E p \in Procs : CleanupDelete(p)
    \/ \E p \in Procs : CleanupDeleteFails(p)

IsolationSpec == Init /\ [][IsolationNext]_vars

\* Rejections that fail and are retried, one invocation at a time: each
\* staged secret is proposed once, recorded changes are rejected, and a
\* reject may fail at its ledger update, after its delete.
RetryNext ==
    \/ \E t \in ConfiguredTargets, m \in {MapA, MapB} : StageCreate(t, m)
    \/ \E p \in Procs, u \in Users, t \in ConfiguredTargets, c \in ChangeIds :
            /\ Quiet /\ FirstProposal(c) /\ staging[c] # None
            /\ ProposeReadStaging(p, u, t, c)
    \/ \E p \in Procs, u \in Users, c \in ChangeIds, m \in Comments :
            Quiet /\ ChangesById(c) # {} /\ RejectLoad(p, u, c, m)
    \/ \E p \in Procs : ProposeReadCurrent(p)
    \/ \E p \in Procs : ProposePut(p)
    \/ \E p \in Procs : RejectDeleteStaging(p)
    \/ \E p \in Procs : RejectUpdate(p)
    \/ \E p \in Procs : pc[p] = "j_update" /\ Throw(p)

RetrySpec == Init /\ [][RetryNext]_vars

\* The `limit` and `nextToken` parameters a client may send: no limit, 0,
\* a limit up to MaxLimit, one beyond MAX_LIMIT; no token, the token of any
\* item's key in the partition, a token that does not parse.
LimitParams ==
    {None, Some(MAX_LIMIT + 1)} \cup {Some(n) : n \in 0..MaxLimit}
PageTokens(t) ==
    {None, Some(BadToken)}
        \cup {Some(EncodeNextToken([pk |-> r.pk, sk |-> r.sk])) :
                r \in {x \in ledger : x.pk = t}}

\* The history read page by page, with no writer in flight: proposals (a
\* staging secret may be proposed again), approvals and rollbacks build
\* the ledger one invocation at a time while the clock moves.
PageNext ==
    \/ \E t \in ConfiguredTargets, m \in {MapA, MapB} : StageCreate(t, m)
    \/ Tick
    \/ \E p \in Procs, u \in Users, t \in ConfiguredTargets, c \in ChangeIds :
            Quiet /\ ProposeReadStaging(p, u, t, c)
    \/ \E p \in Procs, u \in Users, c \in RequestIds, m \in Comments :
            Quiet /\ ApproveLoad(p, u, c, m)
    \/ \E p \in Procs, u \in Users, c \in RequestIds :
            Quiet /\ RollbackLoad(p, u, c)
    \/ \E p \in Procs : ProposeReadCurrent(p)
    \/ \E p \in Procs : ProposePut(p)
    \/ \E p \in Procs : ApproveVersionCheck(p)
    \/ \E p \in Procs : ApproveReadStaging(p)
    \/ \E p \in Procs : ApproveReadPrevious(p)
    \/ \E p \in Procs : ApprovePut(p)
    \/ \E p \in Procs : ApproveDeleteStaging(p)
    \/ \E p \in Procs : ApproveUpdate(p)
    \/ \E p \in Procs : RollbackReadPrevious(p)
    \/ \E p \in Procs : RollbackPut(p)
    \/ \E p \in Procs : RollbackRecord(p)
    \/ \E p \in Procs, t \in AllTargets, limitParam \in LimitParams :
          \E nextTokenParam \in PageTokens(t) :
            Quiet /\ HistoryPage(p, t, limitParam, nextTokenParam)

PageSpec == Init /\ [][PageNext]_vars

\* Approvals whose write to the live secret may fail: each staged secret is
\* proposed once, approvals run concurrently, and putSecretValue may throw.
PutFailsNext ==
    \/ \E s \in StagedPayloads : StageCreate(s[1], s[2])
    \/ \E p \in Procs, u \in Users, t \in ConfiguredTargets, c \in ChangeIds :
            FirstProposal(c) /\ ProposeReadStaging(p, u, t, c)
    \/ \E p \in Procs, u \in Users, c \in ChangeIds, m \in Comments :
            ApproveLoad(p, u, c, m)
    \/ \E p \in Procs : ProposeReadCurrent(p)
    \/ \E p \in Procs : ProposePut(p)
    \/ \E p \in Procs : ApproveVersionCheck(p)
    \/ \E p \in Procs : ApproveReadStaging(p)
    \/ \E p \in Procs : ApproveReadPrevious(p)
    \/ \E p \in Procs : ApprovePut(p)
    \/ \E p \in Procs : ApproveDeleteStaging(p)
    \/ \E p \in Procs : ApproveUpdate(p)
    \/ \E p \in Procs : pc[p] = "a_put" /\ Throw(p)

PutFailsSpec == Init /\ [][PutFailsNext]_vars

\* The `status` and `nextToken` parameters a client may send to the list:
\* no filter, each status, a filter that names no status; no token, the
\* token of any item, a token that does not parse.
StatusFilters == {None, Some("all")} \cup {Some(s) : s \in StatusNames}
ListTokens ==
    {None, Some(BadToken)}
        \cup {Some(EncodeListToken(StatusIndexKey(r))) : r \in ledger}

\* The list read with no writer in flight: proposals (a staging secret may
\* be proposed again), approvals and rejections build the ledger one
\* invocation at a time while the clock moves.
ListNext ==
    \/ \E t \in ConfiguredTargets, m \in {MapA, MapB} : StageCreate(t, m)
    \/ Tick
    \/ \E p \in Procs, u \in Users, t \in ConfiguredTargets, c \in ChangeIds :
            Quiet /\ ProposeReadStaging(p, u, t, c)
    \/ \E p \in Procs, u \in Users, c \in RequestIds, m \in Comments :
            Quiet /\ ApproveLoad(p, u, c, m)
    \/ \E p \in Procs, u \in Users, c \in RequestIds, m \in Comments :
            Quiet /\ RejectLoad(p, u, c, m)
    \/ \E p \in Procs : ProposeReadCurrent(p)
    \/ \E p \in Procs : ProposePut(p)
    \/ \E p \in Procs : ApproveVersionCheck(p)
    \/ \E p \in Procs : ApproveReadStaging(p)
    \/ \E p \in Procs : ApproveReadPrevious(p)
    \/ \E p \in Procs : ApprovePut(p)
    \/ \E p \in Procs : ApproveDeleteStaging(p)
    \/ \E p \in Procs : ApproveUpdate(p)
    \/ \E p \in Procs : RejectDeleteStaging(p)
    \/ \E p \in Procs : RejectUpdate(p)
    \/ \E p \in Procs, statusFilter \in StatusFilters,
          limitParam \in LimitParams, nextTokenParam \in ListTokens :
            Quiet /\ ListChanges(p, statusFilter, limitParam, nextTokenParam)
    \/ \E p \in Procs : ListQueryByStatus(p)

ListSpec == Init /\ [][ListNext]_vars

\* A staging secret staged again: proposals, approvals and sweeps one at a
\* time, the retention window passing between them, and a proposer creating
\* a staging secret again under the name of one the sweep has deleted.
RecreateNext ==
    \/ \E m \in {MapA, MapB}, t \in ConfiguredTargets : StageCreate(t, m)
    \/ \E c \in ChangeIds, m \in {MapA, MapB}, t \in ConfiguredTargets :
            StageRecreate(c, t, m)
    \/ Quiet /\ RetentionPasses
    \/ \E p \in Procs, u \in Users, t \in ConfiguredTargets, c \in ChangeIds :
            Quiet /\ FirstProposal(c) /\ ProposeReadStaging(p, u, t, c)
    \/ \E p \in Procs, u \in Users, c \in ChangeIds, m \in Comments :
            Quiet /\ ApproveLoad(p, u, c, m)
    \/ \E p \in Procs : Quiet /\ CleanupList(p)
    \/ \E p \in Procs : ProposeReadCurrent(p)
    \/ \E p \in Procs : ProposePut(p)
    \/ \E p \in Procs : ApproveVersionCheck(p)
    \/ \E p \in Procs : ApproveReadStaging(p)
    \/ \E p \in Procs : ApproveReadPrevious(p)
    \/ \E p \in Procs : ApprovePut(p)
    \/ \E p \in Procs : ApproveDeleteStaging(p)
    \/ \E p \in Procs : ApproveUpdate(p)
    \/ \E p \in Procs : CleanupLookup(p)
    \/ \E p \in Procs : CleanupDelete(p)

RecreateSpec == Init /\ [][RecreateNext]_vars

\* Writers of the live secret one at a time: an approve or a rollback
\* arrives only when no approve and no rollback is in flight, while
\* proposals and rejections arrive at any time and any invocation may fail
\* at a store call.
NoLiveWriter == \A q \in Procs : req[q].op \notin {"approve", "rollback"}

WritersApartNext ==
    \/ \E s \in StagedPayloads : StageCreate(s[1], s[2])
    \/ \E p \in Procs, u \in Users, t \in ConfiguredTargets, c \in ChangeIds :
            FirstProposal(c) /\ ProposeReadStaging(p, u, t, c)
    \/ \E p \in Procs, u \in Users, c \in RequestIds, m \in Comments :
            NoLiveWriter /\ ApproveLoad(p, u, c, m)
    \/ \E p \in Procs, u \in Users, c \in RequestIds, m \in Comments :
            RejectLoad(p, u, c, m)
    \/ \E p \in Procs, u \in Users, c \in RequestIds :
            NoLiveWriter /\ RollbackLoad(p, u, c)
    \/ \E p \in Procs : WriterLater(p)

WritersApartSpec == Init /\ [][WritersApartNext]_vars

\* =================================================================== claims

\* The step just taken was taken by invocation p.
Moved(p) == pc'[p] # pc[p]

\* The step just taken was a store call that threw.
Threw == resp' = error(500, "Internal server error")

\* The ledger item the invocation loaded, as the ledger holds it now.
Stored(p) ==
    {r \in ledger : r.pk = local[p].change[1].pk /\ r.sk = local[p].change[1].sk}

\* The items propose created (rollback's have no staging secret).
Proposed(items) == {r \in items : r.stagingSecretName # ""}

Resolved == {"approved", "rejected"}

\* C1: a ChangeRequest's status only moves pending -> approved or pending ->
\* rejected; once an item is approved or rejected its status never changes
\* again, whatever the interleaving of the handlers.
C1_StatusIsTerminal ==
    [][\A r \in ledger :
          r.status \in Resolved =>
            \E n \in ledger' : n.pk = r.pk /\ n.sk = r.sk /\ n.status = r.status]_vars

\* C2: an item created by propose gets at most one status update, and the
\* live secret is written on its behalf at most once. Stated on the steps:
\* a status update finds its item still pending, and a live write made for
\* an item finds it not yet approved and no other approval of it past its
\* own live write.
C2_OneUpdateOneLiveWrite ==
    [][\A p \in Procs :
          /\ (/\ pc[p] \in {"a_update", "j_update"}
              /\ Moved(p) /\ ~Threw)
                => \A r \in Stored(p) : r.status = "pending"
          /\ (pc[p] = "a_put" /\ Moved(p) /\ ~Threw)
                => /\ \A r \in Stored(p) : r.status # "approved"
                   /\ \A q \in Procs \ {p} :
                        ~(/\ pc[q] \in {"a_delete", "a_update"}
                          /\ local[q].change[1].pk = local[p].change[1].pk
                          /\ local[q].change[1].sk = local[p].change[1].sk)]_vars

\* C3: the live secrets are written only by approve and rollback: a step of
\* any other handler (propose in every outcome, reject, cleanup, the diff,
\* list and history reads) leaves every live secret's values and version
\* identifier as they were.
C3_LiveWrittenOnlyByApproveAndRollback ==
    [][live' # live =>
          \E p \in Procs : Moved(p) /\ req[p].op \in {"approve", "rollback"}]_vars

\* A change has been rejected, after its proposal, and the live secret is
\* what the stack created.
C3_RejectedLiveUntouched ==
    /\ resp = ok("rejected")
    /\ \E r \in Proposed(ledger) :
          r.status = "rejected" /\ live[r.target] = <<EmptyMap>>

\* C4: no silent overwrite. An approve writes the live secret only while the
\* secret's version is the one its change recorded at proposal time, and an
\* approve succeeds only if no other change was approved on the same secret
\* since its change was proposed.
C4_NoSilentOverwrite ==
    [][\A p \in Procs :
          /\ (pc[p] = "a_put" /\ Moved(p) /\ ~Threw)
                => CurrentVersionId(local[p].change[1].target)
                        = local[p].change[1].secretVersionId
          /\ (pc[p] = "a_update" /\ Moved(p) /\ ~Threw)
                => \A r \in Proposed(ledger) :
                      ~(/\ r.changeId # local[p].change[1].changeId
                        /\ r.target = local[p].change[1].target
                        /\ r.status = "approved"
                        /\ r.previousVersionId
                                >= local[p].change[1].secretVersionId)]_vars

\* C5: version conflict detection. Up to and including its version check an
\* approve writes nothing, and when the check finds the live secret at a
\* version other than the one the pending change recorded, the approve
\* answers 409 Conflict and ends there.
C5_VersionConflict ==
    [][\A p \in Procs :
          /\ (Moved(p) /\ "a_version" \in {pc[p], pc'[p]})
                => UNCHANGED stores
          /\ (/\ pc[p] = "a_version" /\ Moved(p) /\ ~Threw
              /\ CurrentVersionId(local[p].change[1].target)
                    # local[p].change[1].secretVersionId)
                => resp' = error(409, "Conflict") /\ pc'[p] = "idle"]_vars

\* An approve has just been refused with 409 Conflict: its change is still
\* pending, recorded at a version the live secret has left behind.
C5_ConflictRefused ==
    /\ resp = error(409, "Conflict")
    /\ \E r \in Proposed(ledger) :
          /\ r.status = "pending"
          /\ r.secretVersionId # CurrentVersionId(r.target)
          /\ staging[r.changeId] # None

\* Two different changes proposed for the same secret at the same version,
\* both approved.
RacedPairs ==
    {pair \in Proposed(ledger) \X Proposed(ledger) :
        /\ pair[1].changeId # pair[2].changeId
        /\ pair[1].target = pair[2].target
        /\ pair[1].secretVersionId = pair[2].secretVersionId
        /\ pair[1].status = "approved" /\ pair[2].status = "approved"}

\* C6: the residual race. Two approvals of different changes proposed at the
\* same version of a secret can both end approved, and when they do both
\* have written the secret: it holds at least two versions past the one the
\* changes recorded, the later write current.
C6_BothApprovalsWrote ==
    \A pair \in RacedPairs :
        Len(live[pair[1].target]) >= pair[1].secretVersionId + 2

\* The race has happened: both approvals read the recorded version before
\* either wrote, both wrote, both changes are approved, and the secret now
\* holds the later write where the earlier one was.
C6_ResidualRace ==
    \E pair \in RacedPairs :
        LET t == pair[1].target
            v == pair[1].secretVersionId
        IN  /\ pair[1].previousVersionId = v
            /\ pair[2].previousVersionId = v
            /\ Len(live[t]) = v + 2
            /\ pair[1].currentKeys = Some(ObjectKeys(live[t][v + 1]))
            /\ pair[2].currentKeys = Some(ObjectKeys(live[t][v + 2]))
            /\ live[t][v + 1] # live[t][v + 2]
            /\ staging[pair[1].changeId] = None
            /\ staging[pair[2].changeId] = None

\* C7: an approve that runs without interference and succeeds leaves the
\* live secret's values exactly the staged proposed values, the staging
\* secret deleted, and the item approved, with the reviewer as reviewedBy,
\* reviewedAt set and currentKeys the keys of the proposed values.
C7_ApproveAppliesAndCleansUp ==
    [][\A p \in Procs :
          (pc[p] = "a_update" /\ Moved(p) /\ ~Threw) =>
            LET change == local[p].change[1]
                proposed == local[p].stagingData[1].proposed
            IN  /\ resp' = ok("approved and applied")
                /\ live'[change.target][Len(live'[change.target])] = proposed
                /\ staging'[change.changeId] = None
                /\ \E r \in ledger' :
                      /\ r.pk = change.pk /\ r.sk = change.sk
                      /\ r.status = "approved"
                      /\ r.reviewedBy = req[p].user
                      /\ r.reviewedBy # ""
                      /\ r.reviewedAt # NoTime
                      /\ r.currentKeys = Some(ObjectKeys(proposed))]_vars

\* An approve has just succeeded on a proposal that drops a key the live
\* secret held.
C7_ApprovedDroppingKey ==
    /\ resp = ok("approved and applied")
    /\ \E r \in Proposed(ledger) :
          /\ r.status = "approved"
          /\ staging[r.changeId] = None
          /\ r.currentKeys = Some(ObjectKeys(CurrentValues(r.target)))
          /\ \E i \in 1..Len(r.diff) : r.diff[i].type = "removed"

\* C8: a successful rollback of an approved change C sets the live secret to
\* the values it held immediately before C's approval write, whatever was
\* written since, and records a new approved item under an identifier of
\* its own, with the marker diff naming C and currentKeys the keys of the
\* restored values.
C8_RollbackRestoresPriorState ==
    [][\A p \in Procs :
          LET c == local[p].change[1]
          IN  /\ (/\ pc[p] = "r_put" /\ Moved(p) /\ ~Threw
                  /\ c.previousVersionId # NoVersion)
                    => live'[c.target][Len(live'[c.target])]
                            = live[c.target][c.previousVersionId]
              /\ (pc[p] = "r_record" /\ Moved(p) /\ ~Threw)
                    => \E r \in ledger' \ ledger :
                          /\ r.changeId # c.changeId
                          /\ r.status = "approved"
                          /\ r.diff = <<[type |-> "modified",
                                         key |-> RollbackKey(c.changeId)]>>
                          /\ r.currentKeys
                                = Some(ObjectKeys(CurrentValues(c.target)))]_vars

\* C9: with PREVENT_SELF_APPROVAL on, an approve by the proposer of the
\* loaded pending change answers 403 and writes nothing, and so no item
\* created by propose is ever approved with reviewedBy equal to proposedBy.
C9_NoSelfApproval ==
    [][/\ \A p \in Procs, u \in Users, c \in RequestIds, m \in Comments :
            (/\ ApproveLoad(p, u, c, m)
             /\ ChangesById(c) # {}
             /\ \A r \in ChangesById(c) :
                    r.status = "pending" /\ r.proposedBy = u)
                => /\ resp' = error(403, "Cannot approve your own changes")
                   /\ pc'[p] = "idle"
                   /\ UNCHANGED stores
       /\ \A r \in Proposed(ledger') :
            r.status = "approved" => r.reviewedBy # r.proposedBy]_vars

\* C10: an approve or a reject of a change that is no longer pending answers
\* 409, one of an unknown changeId answers 404, and neither writes to the
\* live secrets, the staging secrets or the ledger.
C10_ResolvedOrUnknownRefused ==
    [][\A p \in Procs, u \in Users, c \in RequestIds, m \in Comments :
          (ApproveLoad(p, u, c, m) \/ RejectLoad(p, u, c, m))
            => /\ UNCHANGED stores
               /\ ChangesById(c) = {}
                    => /\ resp' = error(404, "Change not found")
                       /\ pc'[p] = "idle"
               /\ (/\ ChangesById(c) # {}
                   /\ \A r \in ChangesById(c) : r.status # "pending")
                    => /\ resp' = error(409, "Change is already resolved")
                       /\ pc'[p] = "idle"]_vars

\* A review of a resolved change has just been refused with 409.
C10_ResolvedRefused ==
    /\ resp = error(409, "Change is already resolved")
    /\ \E r \in Proposed(ledger) : r.status \in Resolved

\* C11: a rollback of a change that is pending or rejected answers 400 "Can
\* only rollback approved changes", one of an unknown changeId answers 404,
\* and either ends there having written nothing: the live secrets, the
\* staging secrets and the ledger are as they were, and no rollback
\* identifier was minted.
C11_RollbackNeedsApprovedSource ==
    [][\A p \in Procs, u \in Users, c \in RequestIds :
          RollbackLoad(p, u, c)
            => /\ UNCHANGED <<stores, minted>>
               /\ ChangesById(c) = {}
                    => /\ resp' = error(404, "Change not found")
                       /\ pc'[p] = "idle"
               /\ (/\ ChangesById(c) # {}
                   /\ \A r \in ChangesById(c) :
                        r.status \in {"pending", "rejected"})
                    => /\ resp' = error(400, "Can only rollback approved changes")
                       /\ pc'[p] = "idle"]_vars

\* A rollback has just been refused with 400 while every change in the
\* ledger is rejected.
C11_RollbackOfRejectedRefused ==
    /\ resp = error(400, "Can only rollback approved changes")
    /\ ledger # {}
    /\ \A r \in ledger : r.status = "rejected"

\* C12: rollback changes no existing ledger item and never writes a staging
\* secret. Its steps leave the staging secrets and every item of the ledger
\* as they were; its last step adds exactly one item, created approved, with
\* no staging secret name, proposedBy and reviewedBy the caller, and the
\* reason prefixed "Rollback: ". (No rollback step reads the staging
\* secrets: none of its definitions mentions them.)
C12_RollbackOnlyAddsOneRecord ==
    [][\A p \in Procs :
          ((req[p].op = "rollback" /\ Moved(p))
                \/ \E u \in Users, c \in RequestIds : RollbackLoad(p, u, c))
            => /\ staging' = staging
               /\ ledger \subseteq ledger'
               /\ pc[p] # "r_record" => ledger' = ledger
               /\ (pc[p] = "r_record" /\ ~Threw)
                    => /\ resp' = ok("Rolled back")
                       /\ \E r \in ledger' \ ledger :
                            /\ ledger' = ledger \cup {r}
                            /\ r.changeId \notin {x.changeId : x \in ledger}
                            /\ r.status = "approved"
                            /\ r.stagingSecretName = ""
                            /\ r.proposedBy = req[p].user
                            /\ r.reviewedBy = req[p].user
                            /\ \E text \in {"fix"} :
                                    r.reason = "Rollback: " \o text]_vars

\* A rollback has just succeeded with no staging secret left: the ledger
\* holds the approved change it rolled back, as its approval left it, and
\* the rollback's own item.
C12_RolledBackAfterStagingGone ==
    /\ resp = ok("Rolled back")
    /\ \A c \in ChangeIds : staging[c] = None
    /\ \E r \in Proposed(ledger), b \in ledger \ Proposed(ledger) :
          /\ r.status = "approved"
          /\ b.status = "approved"
          /\ b.diff[1].key = RollbackKey(r.changeId)

\* C13: when the store has no version of the live secret labelled
\* AWSPREVIOUS, a rollback of an approved change answers 400 "Previous
\* version not available" and ends there: the live secret is not written and
\* no ledger item is created.
C13_NoPriorVersion ==
    [][\A p \in Procs :
          (/\ pc[p] = "r_previous" /\ Moved(p) /\ ~Threw
           /\ ~previousStage[local[p].change[1].target])
            => /\ local[p].change[1].status = "approved"
               /\ resp' = error(400, "Previous version not available")
               /\ pc'[p] = "idle"
               /\ UNCHANGED <<stores, previousStage, minted>>]_vars

\* A rollback of an approved change has just been refused for want of a
\* previous version; the live secret still holds the approved values.
C13_RollbackRefusedNoPrevious ==
    /\ resp = error(400, "Previous version not available")
    /\ \E r \in Proposed(ledger) :
          /\ r.status = "approved"
          /\ ~previousStage[r.target]
          /\ Len(live[r.target]) = r.previousVersionId + 1
          /\ \A b \in ledger : b.stagingSecretName # ""

\* C14: a reject that finds its change pending goes on whoever the caller
\* is, the proposer included; no step of a reject writes a live secret; and
\* when its status update succeeds the reject answers 200 with the change's
\* staging secret deleted and the item rejected, reviewedBy the caller and
\* reviewedAt set.
C14_RejectDeletesStagingAndMarks ==
    [][\A p \in Procs :
          /\ \A u \in Users, c \in RequestIds, m \in Comments :
                (/\ RejectLoad(p, u, c, m)
                 /\ ChangesById(c) # {}
                 /\ \A r \in ChangesById(c) : r.status = "pending")
                    => pc'[p] = "j_delete" /\ UNCHANGED stores
          /\ (req[p].op = "reject" /\ Moved(p))
                => live' = live /\ previousStage' = previousStage
          /\ (pc[p] = "j_update" /\ Moved(p) /\ ~Threw)
                => LET change == local[p].change[1]
                   IN  /\ resp' = ok("rejected")
                       /\ staging'[change.changeId] = None
                       /\ \E r \in ledger' :
                            /\ r.pk = change.pk /\ r.sk = change.sk
                            /\ r.status = "rejected"
                            /\ r.reviewedBy = req[p].user
                            /\ r.reviewedBy # ""
                            /\ r.reviewedAt # NoTime]_vars

\* A proposer has just rejected their own change: its staging secret is
\* gone and the live secret is what the stack created.
C14_RejectedOwnProposal ==
    /\ resp = ok("rejected")
    /\ \E r \in Proposed(ledger) :
          /\ r.status = "rejected"
          /\ r.reviewedBy = r.proposedBy
          /\ staging[r.changeId] = None
          /\ live[r.target] = <<EmptyMap>>

\* C15: when the staged proposed values equal the live secret's current
\* values, propose answers 200 "No changes detected" and ends there: no
\* ledger item is created and no store is written.
C15_NoOpProposal ==
    [][\A p \in Procs :
          (/\ pc[p] = "p_current" /\ Moved(p) /\ ~Threw
           /\ local[p].stagingData[1].proposed = CurrentValues(req[p].target))
            => /\ resp' = ok("No changes detected")
               /\ pc'[p] = "idle"
               /\ UNCHANGED stores]_vars

\* A proposal of values the live secret already holds, written there by an
\* approval, has just been answered "No changes detected" and has no item.
C15_NoChangeAnswered ==
    /\ resp = ok("No changes detected")
    /\ \E c \in ChangeIds :
          /\ staging[c] # None
          /\ staging[c][1].proposed = CurrentValues(staging[c][1].target)
          /\ staging[c][1].proposed # EmptyMap
          /\ ChangesById(c) = {}

C17_ProposeValidationWritesNothing ==
    [][/\ \A p \in Procs :
            /\ \A t \in AllTargets, prefixed \in BOOLEAN, reason \in {"", "fix"} :
                  ProposeBadRequest(p, t, prefixed, reason)
                    => /\ UNCHANGED stores
                       /\ pc'[p] = "idle"
                       /\ resp'.statusCode = 400
                       /\ (reason # "" /\ t \notin ConfiguredTargets)
                            => resp' = error(400, "Invalid project/environment")
                       /\ (reason # "" /\ t \in ConfiguredTargets)
                            => resp' = error(400, "Invalid staging secret name")
            /\ \A u \in Users, t \in ConfiguredTargets, c \in ChangeIds :
                  ProposeReadStaging(p, u, t, c)
                    => /\ UNCHANGED stores
                       /\ staging[c] = None
                            => /\ resp' = error(400, "Staging secret not found")
                               /\ pc'[p] = "idle"
                       /\ (staging[c] # None /\ staging[c][1].target # t)
                            => /\ resp' = error(400, "Staging secret project/env does not match request")
                               /\ pc'[p] = "idle"
       /\ \A r \in Proposed(ledger') :
            /\ r.target \in ConfiguredTargets
            /\ staging'[r.changeId] # None
                    => staging'[r.changeId][1].target = r.target]_vars

\* A propose for a configured (project, env) has just been refused because
\* its staging payload names another; the ledger is still empty.
C17_MismatchRefused ==
    /\ resp = error(400, "Staging secret project/env does not match request")
    /\ ledger = {}
    /\ \E c \in ChangeIds :
          staging[c] # None /\ staging[c][1].target \notin ConfiguredTargets

\* What the diff of two mappings must be: one entry for each key that
\* differs, typed by how it differs, and none for any other key.
ExactDiff(baseline, proposed, diff) ==
    /\ \A i \in 1..Len(diff) : diff[i].key \in DOMAIN baseline \cup DOMAIN proposed
    /\ \A k \in DOMAIN baseline \cup DOMAIN proposed :
          LET entries == {i \in 1..Len(diff) : diff[i].key = k}
              expected ==
                IF k \notin DOMAIN baseline THEN {"added"}
                ELSE IF k \notin DOMAIN proposed THEN {"removed"}
                ELSE IF baseline[k] # proposed[k] THEN {"modified"}
                ELSE {}
          IN  /\ Cardinality(entries) = Cardinality(expected)
              /\ \A i \in entries : diff[i].type \in expected
    /\ diff = <<>> <=> baseline = proposed

\* C18: for every baseline and every proposed mapping, the diff computeDiff
\* gives propose holds exactly one entry for each key that differs (added
\* for a key only in proposed, removed for a key only in baseline, modified
\* for a key both hold with different values), none for any other key, no
\* key twice, and is empty exactly when the mappings are equal: the diff
\* propose records is that one, and propose answers "No changes detected"
\* only for equal mappings.
C18_DiffCorrectness ==
    \A c \in ChangeIds :
        staging[c] # None =>
          LET baseline == CurrentValues(staging[c][1].target)
              proposed == staging[c][1].proposed
          IN  /\ computeDiff(proposed, proposed) = <<>>
              /\ \A r \in ChangesById(c) :
                    ExactDiff(baseline, proposed, r.diff)
              /\ resp = ok("No changes detected") => baseline = proposed

\* A diff holds type tags and key names only.
DiffSecretFree(diff) ==
    \A i \in 1..Len(diff) :
        /\ DOMAIN diff[i] = {"type", "key"}
        /\ diff[i].type \in {"added", "modified", "removed"}
        /\ diff[i].key \notin Values

\* A ledger item holds identifiers, identities, timestamps, a status, reason
\* and comment text, version identifiers, key names and type tags, and no
\* secret value.
NoSecretValue(r) ==
    /\ DOMAIN r = {"pk", "sk", "changeId", "target", "status", "proposedBy",
                   "stagingSecretName", "diff", "diffCount", "reason",
                   "createdAt", "secretVersionId", "reviewedBy", "reviewedAt",
                   "comment", "previousVersionId", "currentKeys"}
    /\ {r.pk, r.changeId, r.target, r.status, r.proposedBy,
        r.stagingSecretName, r.reason, r.reviewedBy, r.comment}
            \cap Values = {}
    /\ r.sk = <<r.createdAt, r.changeId>>
    /\ r.createdAt \in 0..MaxTime /\ r.reviewedAt \in -1..MaxTime
    /\ r.diffCount \in 0..Cardinality(Keys)
    /\ r.secretVersionId \in 0..MaxVersion
    /\ r.previousVersionId \in 0..MaxVersion
    /\ DiffSecretFree(r.diff)
    /\ r.currentKeys # None
            => \A i \in 1..Len(r.currentKeys[1]) : r.currentKeys[1][i] \in Keys

\* A response body of the propose, diff, list and history handlers holds no
\* secret value.
ResponseSecretFree(response) ==
    CASE response.message \in {"Change proposed successfully", "diff"} ->
            /\ DiffSecretFree(response.diff)
            /\ \A f \in DOMAIN response \ {"statusCode", "diff", "diffCount",
                                          "createdAt", "reviewedAt"} :
                    response[f] \notin Values
      [] response.message = "changes" ->
            \A c \in response.changes :
                \A f \in DOMAIN c \ {"diffCount", "createdAt", "reviewedAt"} :
                    c[f] \notin Values
      [] response.message = "history" ->
            /\ \A i \in 1..Len(response.history) :
                  /\ DiffSecretFree(response.history[i].diff)
                  /\ \A f \in DOMAIN response.history[i]
                            \ {"diff", "diffCount", "createdAt", "reviewedAt"} :
                        response.history[i][f] \notin Values
            /\ \A i \in 1..Len(response.currentKeys) :
                  response.currentKeys[i] \in Keys
      [] OTHER -> TRUE

\* Two pairs of mappings with the same keys and, key by key, the same
\* equal / different pattern.
SamePattern(cur, prop, cur2, prop2) ==
    /\ DOMAIN cur2 = DOMAIN cur
    /\ DOMAIN prop2 = DOMAIN prop
    /\ \A k \in DOMAIN cur \cap DOMAIN prop :
          (cur2[k] = prop2[k]) <=> (cur[k] = prop[k])

\* C19: metadata / value separation. No ledger item and no response of the
\* propose, diff, list and history handlers holds a secret value; and what
\* each handler writes to the ledger is the same for any other secret values
\* with the same keys and the same equal / different pattern: the diff
\* propose records (or its finding none), the currentKeys approve records,
\* the item rollback records. The diff, list and history responses are read
\* off the ledger alone.
C19_MetadataValueSeparation ==
    [][/\ \A r \in ledger' : NoSecretValue(r)
       /\ ResponseSecretFree(resp')
       /\ \A p \in Procs :
            /\ (pc[p] = "p_current" /\ Moved(p) /\ ~Threw)
                  => \A cur2 \in Maps, prop2 \in Maps :
                        SamePattern(CurrentValues(req[p].target),
                                    local[p].stagingData[1].proposed,
                                    cur2, prop2)
                          => IF pc'[p] = "p_put"
                               THEN /\ local'[p].change[1].diff
                                            = computeDiff(cur2, prop2)
                                    /\ local'[p].change[1].diffCount
                                            = Len(computeDiff(cur2, prop2))
                               ELSE computeDiff(cur2, prop2) = <<>>
            /\ (pc[p] = "p_put" /\ Moved(p) /\ ~Threw)
                  => ledger' = putChange(local[p].change[1])
            /\ (pc[p] = "a_update" /\ Moved(p) /\ ~Threw)
                  => \A prop2 \in Maps :
                        DOMAIN prop2 = DOMAIN local[p].stagingData[1].proposed
                          => ledger' = updateChangeStatus(
                                local[p].change[1].pk, local[p].change[1].sk,
                                "approved", req[p].user, req[p].comment,
                                local[p].previousVersionId,
                                Some(ObjectKeys(prop2)))
            /\ (pc[p] = "r_record" /\ Moved(p) /\ ~Threw)
                  => \A values2 \in Maps :
                        DOMAIN values2 = DOMAIN local[p].rollbackValues[1]
                          => ledger' = putChange(RollbackChange(
                                local[p].change[1].target,
                                RollbackIdSeq[minted + 1], req[p].changeId,
                                req[p].user, values2, clock))]_vars

\* The history of a secret that holds values has just been read: it lists
\* an approved change and a rollback, with their diffs, and the current
\* keys.
C19_HistoryRead ==
    /\ resp.statusCode = 200 /\ resp.message = "history"
    /\ Len(resp.history) >= 2
    /\ \E i, j \in 1..Len(resp.history) :
          /\ resp.history[i].status = "approved"
          /\ resp.history[i].diff # <<>>
          /\ resp.history[j].diff
                = <<[type |-> "modified",
                     key |-> RollbackKey(resp.history[i].changeId)]>>
    /\ \E t \in ConfiguredTargets : Len(live[t]) >= 3

\* C20: the sweep's selection. Whenever the sweep takes up a listed staging
\* secret it goes straight to deleting it, without looking at its change,
\* exactly when the secret is more than MAX_AGE_DAYS old. For a younger one
\* it looks the change up: with no item for the changeId, or an approved or
\* rejected one, it goes on to delete the secret; with a pending one it
\* leaves the secret in place and moves on. The delete removes that staging
\* secret and no other, and the sweep writes nothing else.
C20_SweepSelection ==
    [][\A p \in Procs :
          LET taken == local'[p].secret[1]
              held == local[p].secret[1]
          IN  /\ (CleanupList(p) \/ CleanupLookup(p) \/ CleanupDelete(p))
                    => /\ live' = live /\ ledger' = ledger
                       /\ (/\ local'[p].secret # None
                           /\ pc[p] # "c_lookup" \/ local'[p].secret # local[p].secret)
                            => /\ pc'[p] \in {"c_delete", "c_lookup"}
                               /\ pc'[p] = "c_delete"
                                    <=> local'[p].now - taken.createdAt > MAX_AGE_DAYS
              /\ CleanupList(p)
                    => /\ staging' = staging
                       /\ local'[p].secret # None => taken \in listStagingSecrets
              /\ CleanupLookup(p)
                    => /\ staging' = staging
                       /\ local[p].now - held.createdAt <= MAX_AGE_DAYS
                       /\ (\A r \in ChangesById(held.changeId) : r.status \in Resolved)
                            => pc'[p] = "c_delete" /\ local'[p] = local[p]
                       /\ (/\ ChangesById(held.changeId) # {}
                           /\ \A r \in ChangesById(held.changeId) : r.status = "pending")
                            => ~(pc'[p] = "c_delete" /\ local'[p].secret = local[p].secret)
              /\ CleanupDelete(p)
                    => /\ staging'[held.changeId] = None
                       /\ \A c \in ChangeIds \ {held.changeId} :
                            staging'[c] = staging[c]]_vars

\* A sweep is under way over two pending changes: it has deleted the staging
\* secret of the one proposed more than MAX_AGE_DAYS ago and is looking up
\* the change of the young one.
C20_OldPendingSwept ==
    \E p \in Procs :
        /\ req[p].op = "cleanup" /\ pc[p] = "c_lookup"
        /\ started = 3
        /\ \E old \in ledger, young \in ledger :
              /\ old.changeId # young.changeId
              /\ old.status = "pending" /\ young.status = "pending"
              /\ local[p].now - old.createdAt > MAX_AGE_DAYS
              /\ staging[old.changeId] = None
              /\ local[p].secret[1].changeId = young.changeId
              /\ staging[young.changeId] # None

\* The change identifiers the CLI has created staging secrets for.
StagedIds == {ChangeIdSeq[i] : i \in 1..staged}

\* C21: staging lifetime. A staging secret exists only between its creation
\* and the resolution of its change or its removal by the sweep: when an
\* approve or a reject succeeds the staging secret of its change is absent,
\* a staging secret once deleted never exists again, and every staging
\* secret ever created (whether its proposal was recorded, refused, crashed
\* or found no change) is eventually deleted, given that the sweep keeps
\* being scheduled and the retention window passes.
C21_StagingLifetime ==
    /\ [][/\ \A p \in Procs :
                (pc[p] \in {"a_update", "j_update"} /\ Moved(p) /\ ~Threw)
                    => staging'[req[p].changeId] = None
          /\ \A c \in StagedIds :
                staging[c] = None => staging'[c] = None]_vars
    /\ \A c \in ChangeIds : (staging[c] # None) ~> (staging[c] = None)

\* C22: a failed delete does not end the sweep. When deleteStagingSecret
\* throws inside the loop nothing is written and the sweep goes on: with
\* listed secrets left it takes up one of them, keeps the others for later,
\* judges it by the same clock reading (straight to deletion exactly when
\* it is more than MAX_AGE_DAYS old), and only with none left does the run
\* end. Every step of a sweep takes from the secrets still to do at most
\* the one it goes on with.
C22_CleanupFailuresIsolated ==
    [][\A p \in Procs :
          /\ CleanupDeleteFails(p)
                => /\ UNCHANGED stores
                   /\ IF local[p].stagingSecrets = {}
                        THEN pc'[p] = "idle"
                        ELSE /\ pc'[p] \in {"c_lookup", "c_delete"}
                             /\ local'[p].secret # None
                             /\ local'[p].secret[1] \in local[p].stagingSecrets
                             /\ local'[p].stagingSecrets
                                    = local[p].stagingSecrets
                                        \ {local'[p].secret[1]}
                             /\ local'[p].now = local[p].now
                             /\ pc'[p] = "c_delete"
                                    <=> local[p].now
                                            - local'[p].secret[1].createdAt
                                                > MAX_AGE_DAYS
          /\ (CleanupLookup(p) \/ CleanupDelete(p) \/ CleanupDeleteFails(p))
                => \/ /\ pc'[p] = "idle"
                      /\ local[p].stagingSecrets = {}
                   \/ /\ pc'[p] = "c_delete"
                      /\ local'[p] = local[p]
                   \/ /\ pc'[p] \in {"c_lookup", "c_delete"}
                      /\ local[p].stagingSecrets
                            = local'[p].stagingSecrets
                                \cup {local'[p].secret[1]}]_vars

\* A sweep that listed two staging secrets older than the retention window
\* failed to delete the first and is now about to delete the second, the
\* last of its list.
C22_SecondDeletedAfterFirstFailed ==
    \E p \in Procs, c \in ChangeIds :
        /\ req[p].op = "cleanup" /\ pc[p] = "c_delete"
        /\ local[p].stagingSecrets = {}
        /\ local[p].secret[1].changeId # c
        /\ staging[local[p].secret[1].changeId] # None
        /\ staging[c] # None
        /\ local[p].now - staging[c][1].createdAt > MAX_AGE_DAYS
        /\ local[p].now - local[p].secret[1].createdAt > MAX_AGE_DAYS

\* C23: deleting a staging secret is idempotent. deleteStagingSecret of an
\* absent staging secret leaves the staging secrets as they are and does
\* not raise: a reject whose change is still pending and whose staging
\* secret is already gone (a retry after a failure before the ledger update)
\* goes on from its delete to its ledger update, and that update answers 200
\* and leaves the item rejected.
C23_StagingDeleteIdempotent ==
    [][\A p \in Procs :
          /\ (/\ RejectDeleteStaging(p)
              /\ staging[req[p].changeId] = None)
                => /\ deleteStagingSecret(req[p].changeId) = staging
                   /\ UNCHANGED stores
                   /\ pc'[p] = "j_update"
                   /\ resp' = NoResp
          /\ RejectUpdate(p)
                => /\ staging'[req[p].changeId] = None
                   /\ resp' = ok("rejected")
                   /\ \A r \in ledger' :
                        (r.pk = local[p].change[1].pk
                            /\ r.sk = local[p].change[1].sk)
                          => r.status = "rejected"]_vars

\* A retried reject has just succeeded. One staging secret was created and
\* proposed (the first invocation); the second invocation, a reject of it,
\* failed after its delete; the third, the retry, found the staging secret
\* gone and has rejected the change.
C23_RetriedRejectCompleted ==
    /\ resp = ok("rejected")
    /\ staged = 1 /\ started = 3
    /\ staging[ChangeIdSeq[1]] = None
    /\ \E r \in ledger : ledger = {r} /\ r.status = "rejected"

\* C24: every ledger item, whether propose or rollback created it, has
\* diffCount equal to the number of entries of its diff.
C24_DiffCountIsDiffLength ==
    \A r \in ledger : r.diffCount = Len(r.diff)

\* A client's loop over the history: a first request without nextToken,
\* then one request with each nextToken returned, until a response carries
\* none (or `fuel` further requests have been made). The responses, in order.
RECURSIVE FollowCursor(_, _, _, _)
FollowCursor(t, limitParam, nextTokenParam, fuel) ==
    LET r == historyResponse(t, limitParam, nextTokenParam)
    IN  IF "nextToken" \in DOMAIN r /\ fuel > 0
          THEN <<r>> \o FollowCursor(t, limitParam, Some(r.nextToken),
                                     fuel - 1)
          ELSE <<r>>

\* The history entries of a sequence of responses, in order.
RECURSIVE Entries(_)
Entries(responses) ==
    IF responses = <<>> THEN <<>>
    ELSE responses[1].history \o Entries(Tail(responses))

\* C25: pagination stability. With no write in between, a history request
\* with limit N answers at most N items of the (project, env), latest
\* first; and the requests made by following the returned nextToken until
\* none is returned end, each page holding at most N entries, and list
\* every item of the partition exactly once, latest first over the whole
\* run. A first page holds the latest items: min(N, all) of them, none
\* older than an item left out.
C25_PaginationStability ==
    /\ [](\A t \in AllTargets, limitParam \in LimitParams :
            LET partition == {r \in ledger : r.pk = t}
                responses == FollowCursor(t, limitParam, None,
                                          Cardinality(ledger) + 1)
                entries == Entries(responses)
            IN  /\ "nextToken" \notin DOMAIN responses[Len(responses)]
                /\ \A i \in 1..Len(responses) :
                      /\ responses[i].statusCode = 200
                      /\ Len(responses[i].history)
                            <= EffectiveLimit(limitParam)
                /\ Len(entries) = Cardinality(partition)
                /\ \A r \in partition :
                      Cardinality({i \in 1..Len(entries) :
                            /\ entries[i].changeId = r.changeId
                            /\ entries[i].createdAt = r.createdAt}) = 1
                /\ \A i, j \in 1..Len(entries) :
                      i < j => entries[i].createdAt >= entries[j].createdAt)
    /\ [][\A p \in Procs, t \in AllTargets, limitParam \in LimitParams :
            HistoryPage(p, t, limitParam, None)
              => LET partition == {r \in ledger : r.pk = t}
                     n == EffectiveLimit(limitParam)
                     onPage(r) == \E i \in 1..Len(resp'.history) :
                            /\ resp'.history[i].changeId = r.changeId
                            /\ resp'.history[i].createdAt = r.createdAt
                 IN  /\ Len(resp'.history)
                            = IF Cardinality(partition) < n
                                THEN Cardinality(partition) ELSE n
                     /\ \A r \in partition, o \in partition :
                            (onPage(r) /\ ~onPage(o))
                                => o.createdAt <= r.createdAt
                     /\ "nextToken" \in DOMAIN resp'
                            => Len(resp'.history) = n]_vars

\* The last page of a history of MaxRecords items has just been read from
\* a nextToken: it holds some of the partition's items, not all, and
\* carries no nextToken.
C25_LastPageRead ==
    /\ resp.statusCode = 200 /\ resp.message = "history"
    /\ "nextToken" \notin DOMAIN resp
    /\ resp.history # <<>>
    /\ Len(resp.history) < Cardinality({r \in ledger : r.pk = "app/prod"})
    /\ Cardinality({r \in ledger : r.pk = "app/prod"}) = MaxRecords


\* The status the error taxonomy gives each outcome of propose, approve,
\* reject and rollback, by the outcome's class: validation 400, self-approval
\* 403, not found (change, staging secret, previous version) 404, state
\* conflict (status, version) 409, store failure 500, success 200.
ClassStatus(message) ==
    CASE message \in {"Missing required fields",
                      "Invalid project/environment",
                      "Invalid staging secret name",
                      "Staging secret project/env does not match request"}
            -> 400
      [] message = "Cannot approve your own changes" -> 403
      [] message \in {"Change not found", "Staging secret not found",
                      "Previous version not available"} -> 404
      [] message \in {"Change is already resolved",
                      "Can only rollback approved changes", "Conflict"}
            -> 409
      [] message = "Internal server error" -> 500
      [] OTHER -> 200

\* C26: every response of propose, approve, reject and rollback carries the
\* status of its outcome's class: 200 for a success, 400 for a validation
\* failure, 403 for a self-approval, 404 when the change, the staging secret
\* or the previous version is not found, 409 for a wrong status or a version
\* mismatch, 500 for a store call that threw.
C26_ErrorClassification ==
    resp # NoResp => resp.statusCode = ClassStatus(resp.message)


\* The approve invocation p has made its write to the live secret: a version
\* later than the one it read before writing holds the proposed values it
\* read from the staging secret.
ApproveWrote(p) ==
    LET t == local[p].change[1].target
    IN  /\ local[p].stagingData # None
        /\ local[p].previousVersionId # NoVersion
        /\ \E v \in (local[p].previousVersionId + 1)..Len(live[t]) :
              live[t][v] = local[p].stagingData[1].proposed

\* C27: approve writes the live secret, then deletes the staging secret,
\* then updates the ledger item. In every execution, concurrent invocations
\* and executions cut short by a throwing store call included, a step of an
\* approve deletes the staging secret only after that approve's write to the
\* live secret, and marks the item approved only after that write and with
\* the staging secret deleted; the step that writes the live secret changes
\* neither the staging secret nor the ledger.
C27_ApproveMutationOrder ==
    [][\A p \in Procs :
          (req[p].op = "approve" /\ Moved(p)) =>
            LET c == req[p].changeId
            IN  /\ staging'[c] # staging[c] => ApproveWrote(p)
                /\ ledger' # ledger =>
                      /\ ApproveWrote(p)
                      /\ staging[c] = None
                /\ live' # live =>
                      /\ pc[p] = "a_put"
                      /\ staging' = staging /\ ledger' = ledger]_vars

\* An approve was cut short after its write to the live secret: the one
\* change there is is still pending, its staging secret is still there, and
\* the live secret holds its proposed values as its second version.
C27_CutShortAfterWrite ==
    /\ resp = error(500, "Internal server error")
    /\ Quiet
    /\ \E r \in ledger :
          /\ ledger = {r}
          /\ r.status = "pending"
          /\ staging[r.changeId] # None
          /\ Len(live[r.target]) = 2
          /\ CurrentValues(r.target) = staging[r.changeId][1].proposed


\* The approve invocations of change c that have read its staging secret
\* and not yet returned.
ApprovingPastStaging(c) ==
    {p \in Procs : /\ req[p].op = "approve" /\ req[p].changeId = c
                   /\ pc[p] \in {"a_previous", "a_put", "a_delete",
                                 "a_update"}}

\* The staging secret of change c is gone and no approve that read it is
\* still in flight.
Stranded(c) ==
    /\ c \in StagedIds
    /\ staging[c] = None
    /\ ApprovingPastStaging(c) = {}

\* C28: an approve that throws at its update of the ledger, after its delete
\* of the staging secret, leaves the item as it was (pending, when no other
\* invocation resolved it) and the live secret holding the proposed values
\* (as its current values, when no other invocation wrote since). From then
\* on no approve of that change gets past its reads: each step of one writes
\* neither the live secret nor the ledger, every one that returns from its
\* version check or its staging read answers 409 Conflict, 500 'Staging
\* secret not found' or 500, and no item of the change ever becomes
\* approved.
C28_CrashBeforeLedgerUpdate ==
    [][\A p \in Procs, d \in ChangeIds :
          /\ \A t \in ConfiguredTargets :
                (/\ pc[p] = "a_update" /\ Moved(p) /\ Threw
                 /\ req[p].changeId = d
                 /\ local[p].change[1].target = t
                 /\ ApprovingPastStaging(d) = {p})
                    => /\ Stranded(d)'
                       /\ ledger' = ledger
                       /\ ApproveWrote(p)
                       /\ (Len(live[t]) = local[p].previousVersionId + 1
                            => CurrentValues(t)' =
                                    local[p].stagingData[1].proposed)
          /\ Stranded(d) =>
                /\ Stranded(d)'
                /\ \A r \in ChangesById(d)' :
                      r.status = "approved" => r \in ChangesById(d)
                /\ (Moved(p) /\ "approve" \in {req[p].op, req'[p].op}
                      /\ d \in {req[p].changeId, req'[p].changeId})
                      => /\ live' = live
                         /\ ledger' = ledger
                         /\ (pc[p] \in {"a_version", "a_staging"}
                               /\ Idle(p)')
                              => resp' \in
                                  {error(409, "Conflict"),
                                   error(500, "Staging secret not found"),
                                   error(500, "Internal server error")}
       ]_vars

\* After a proposal and an approve that threw at its update of the ledger,
\* the third invocation, an approve of the same change, has just been
\* refused on its version check: the item is still pending, the staging
\* secret is gone and the live secret was written once.
C28_RetryRefused ==
    /\ resp = error(409, "Conflict")
    /\ Quiet
    /\ started = 3
    /\ \E r \in ledger :
          /\ ledger = {r}
          /\ r.status = "pending"
          /\ staging[r.changeId] = None
          /\ Len(live[r.target]) = 2
          /\ CurrentValues(r.target) # EmptyMap


\* An approve of change c was cut short between its write to the live secret
\* and its delete of the staging secret: the item is still pending, the
\* staging secret is still there, a version of the live secret later than
\* the one recorded at proposal time holds the staged proposed values, and no
\* approve of c that passed its version check is in flight.
LeftoverStaging(c) ==
    /\ staging[c] # None
    /\ \E r \in ChangesById(c) :
          /\ r.status = "pending"
          /\ \E v \in (r.secretVersionId + 1)..Len(live[r.target]) :
                live[r.target][v] = staging[c][1].proposed
    /\ \A p \in Procs :
          (req[p].op = "approve" /\ req[p].changeId = c)
            => pc[p] = "a_version"

\* C29: the staging secret an approve leaves behind when it is cut short
\* between its write to the live secret and its delete is eventually deleted
\* (the sweep keeps being scheduled and the retention window passes), and
\* until then no step of an approve of that change writes the live secret.
C29_LeftoverStagingSwept ==
    /\ [][\A p \in Procs, c \in ChangeIds :
            (/\ LeftoverStaging(c) /\ Moved(p)
             /\ "approve" \in {req[p].op, req'[p].op}
             /\ c \in {req[p].changeId, req'[p].changeId})
                => live' = live]_vars
    /\ \A c \in ChangeIds : LeftoverStaging(c) ~> (staging[c] = None)


\* C30: when approve, having loaded a pending change, finds no staging
\* secret for it (deleted by the sweep, say), it fails with 'Staging secret
\* not found. The change may have expired.' and changes nothing: the live
\* secret is not written, the staging store is as it was and the item stays
\* pending.
C30_StagingExpired ==
    [][\A p \in Procs :
          (/\ pc[p] = "a_staging" /\ Moved(p)
           /\ getStagingSecretValue(req[p].changeId) = None)
            => /\ Idle(p)'
               /\ resp'.message = "Staging secret not found"
               /\ resp'.statusCode # 200
               /\ live' = live
               /\ previousStage' = previousStage
               /\ staging' = staging
               /\ ledger' = ledger
               /\ Stored(p) # {}
               /\ \A r \in Stored(p) : r.status = "pending"]_vars

\* An approve has just been refused for want of the staging secret, which
\* the sweep deleted once the retention window had passed: the change is
\* pending and the live secret was never written.
C30_ApproveAfterSweep ==
    /\ resp = error(500, "Staging secret not found")
    /\ clock > MAX_AGE_DAYS
    /\ \E r \in ledger :
          /\ r.status = "pending"
          /\ staging[r.changeId] = None
          /\ Len(live[r.target]) = 1


\* C31 (as stated): an approve whose write to the live secret failed still
\* deletes the staging secret: when the handler returns from a putSecretValue
\* that threw, the staging secret of its change is gone.
C31_StagingDeletedThoughWriteFailed ==
    [][\A p \in Procs, c \in ChangeIds :
          (pc[p] = "a_put" /\ req[p].changeId = c /\ Moved(p) /\ Threw)
            => staging'[c] = None]_vars

\* C31 (amended): approve deletes the staging secret once its write to the
\* live secret has returned, with no further condition; a write that throws
\* ends the handler with 500 and leaves the staging secret, the live secret
\* and the ledger as they were.
C31_StagingDeletedOnceWritten ==
    [][\A p \in Procs, c \in ChangeIds :
          /\ (pc[p] = "a_delete" /\ req[p].changeId = c /\ Moved(p)
                /\ ~Threw)
                => /\ staging'[c] = None
                   /\ pc'[p] = "a_update"
          /\ (pc[p] = "a_put" /\ req[p].changeId = c /\ Moved(p) /\ Threw)
                => /\ staging' = staging
                   /\ live' = live
                   /\ ledger' = ledger
                   /\ Idle(p)']_vars

\* An approve's write to the live secret has just thrown: the handler
\* answered 500, the one change there is is pending with its staging secret
\* in place, and the live secret was never written.
C31_WriteFailedStagingKept ==
    /\ resp = error(500, "Internal server error")
    /\ Quiet
    /\ \E r \in ledger :
          /\ ledger = {r}
          /\ r.status = "pending"
          /\ staging[r.changeId] # None
          /\ Len(live[r.target]) = 1


\* What propose wrote of an item: everything but the review fields.
ProposalFields(r) ==
    [pk |-> r.pk, sk |-> r.sk, changeId |-> r.changeId, target |-> r.target,
     proposedBy |-> r.proposedBy, stagingSecretName |-> r.stagingSecretName,
     reason |-> r.reason, diff |-> r.diff, diffCount |-> r.diffCount,
     createdAt |-> r.createdAt, secretVersionId |-> r.secretVersionId]

\* C32: a step of approve or reject changes at most the review fields of the
\* item it loaded (status, reviewedBy, reviewedAt, comment, and for approve
\* previousVersionId and currentKeys): the item's changeId, project/env,
\* proposedBy, reason, diff, diffCount, createdAt and secretVersionId stay as
\* propose wrote them and every other item stays as it was. No step of any
\* handler removes an item's key from the ledger.
C32_ReviewFieldsOnly ==
    [][/\ \A r \in ledger :
            \E r2 \in ledger' : r2.pk = r.pk /\ r2.sk = r.sk
       /\ \A p \in Procs :
            (req[p].op \in {"approve", "reject"} /\ Moved(p)) =>
              /\ Cardinality(ledger') = Cardinality(ledger)
              /\ \A r \in ledger :
                    IF r \in Stored(p)
                      THEN \E r2 \in ledger' :
                              /\ ProposalFields(r2) = ProposalFields(r)
                              /\ req[p].op = "reject" =>
                                    /\ r2.previousVersionId = r.previousVersionId
                                    /\ r2.currentKeys = r.currentKeys
                      ELSE r \in ledger']_vars

\* An approve with a comment has just marked one item approved while another
\* item, pending, is in the ledger as propose wrote it.
C32_OneApprovedOtherUntouched ==
    /\ resp = ok("approved and applied")
    /\ \E r \in ledger, o \in ledger :
          /\ r.status = "approved" /\ r.comment # "" /\ r.diff # <<>>
          /\ r.currentKeys # None /\ r.previousVersionId # NoVersion
          /\ o.changeId # r.changeId
          /\ o.status = "pending" /\ o.reviewedBy = ""


\* C33: the list with no status filter, or with one that names no status,
\* answers with the `limit` most recently created items of the whole ledger,
\* latest createdAt first: as many entries as the ledger has, up to `limit`,
\* each the summary of an item of its own, none created before an item
\* that is left out, and no nextToken.
C33_ListNewestAcrossStatuses ==
    [][\A p \in Procs :
          (/\ pc[p] = "l_query" /\ Moved(p) /\ ~Threw
           /\ req[p].statusFilter \in {None, Some("all")})
            => LET changes == resp'.changes
                   limit == EffectiveLimit(req[p].limitParam)
                   listed == {changes[i] : i \in 1..Len(changes)}
               IN  /\ resp'.statusCode = 200
                   /\ "nextToken" \notin DOMAIN resp'
                   /\ Len(changes) =
                        IF Cardinality(ledger) < limit
                          THEN Cardinality(ledger) ELSE limit
                   /\ Cardinality(listed) = Len(changes)
                   /\ listed \subseteq {ChangeSummary(c) : c \in ledger}
                   /\ \A i, j \in 1..Len(changes) :
                        i < j => changes[i].createdAt >= changes[j].createdAt
                   /\ \A c \in ledger :
                        ChangeSummary(c) \notin listed
                          => \A i \in 1..Len(changes) :
                                c.createdAt <= changes[i].createdAt]_vars

\* The list with no filter has just answered with two entries of different
\* statuses, a resolved item first and the pending item created before it
\* second: the merge put the resolved item before the pending one.
C33_MergedNewestFirst ==
    /\ resp.statusCode = 200 /\ resp.message = "changes"
    /\ "nextToken" \notin DOMAIN resp
    /\ DOMAIN resp.changes = 1..2
    /\ resp.changes[1].status \in Resolved
    /\ resp.changes[2].status = "pending"
    /\ resp.changes[2].createdAt < resp.changes[1].createdAt


\* C34: change identifiers are unique in the ledger: whatever propose and
\* rollback calls were made, a staging secret proposed more than once
\* included, at most one item carries a given changeId.
C34_ChangeIdUnique ==
    \A c \in RequestIds : Cardinality(ChangesById(c)) <= 1


\* C35: a change that ends rejected never had its proposed values written to
\* the live secret: once every invocation has returned, no rejected item
\* carries the marks of an approval (previousVersionId, currentKeys), which
\* approve records only after it has written the staged values to the live
\* secret.
C35_RejectedNeverApplied ==
    Quiet =>
        \A r \in Proposed(ledger) :
            r.status = "rejected"
                => r.previousVersionId = NoVersion /\ r.currentKeys = None

\* C36: what is applied is what was reviewed. Whenever a step of approve
\* writes values to the live secret for a change, the key-level diff between
\* the live secret just before the write and the values written is the diff
\* stored in that change's ledger item at proposal time, also when the
\* staging secret of that changeId was deleted by the sweep and created
\* again between the proposal and the approval.
C36_AppliedIsReviewed ==
    [][\A p \in Procs, t \in ConfiguredTargets :
          (/\ pc[p] = "a_put"
           /\ local[p].change[1].target = t
           /\ live'[t] # live[t]) =>
             computeDiff(live[t][Len(live[t])], live'[t][Len(live'[t])])
                = local[p].change[1].diff]_vars

\* C37: under every interleaving of the sweep with propose, the sweep never
\* deletes a staging secret younger than the retention window while a
\* pending ledger item exists for its changeId at the moment of the
\* deletion: no pending change younger than the window is left without its
\* staging secret by the sweep.
C37_SweepKeepsYoungPending ==
    [][\A p \in Procs, c \in ChangeIds :
          (/\ pc[p] = "c_delete"
           /\ local[p].secret[1].changeId = c
           /\ staging[c] # None
           /\ staging'[c] = None
           /\ clock - staging[c][1].createdAt <= MAX_AGE_DAYS) =>
             \A r \in ChangesById(c) : r.status # "pending"]_vars

LatestApproved(t) ==
    {r \in ledger :
        /\ r.pk = t /\ r.status = "approved" /\ r.currentKeys # None
        /\ \A o \in ledger :
              (o.pk = t /\ o.status = "approved" /\ o.currentKeys # None)
                  => o.createdAt <= r.createdAt}

\* C39: the cached key set is current. In every state where no operation is
\* in progress, for each (project, env) with an approved ledger item, the
\* currentKeys of the approved item with the greatest createdAt, the one
\* the history handler reports, is the key set of the live secret.
C39_CachedKeySetCurrent ==
    Quiet =>
      \A t \in ConfiguredTargets :
        \A r \in LatestApproved(t) :
            Cardinality(LatestApproved(t)) = 1 =>
                r.currentKeys = Some(ObjectKeys(CurrentValues(t)))

====
